---- MODULE Spec2Model ----
(***************************************************************************)
(* Streaming TTS audio assembly of the Inworld AI tutor backend:           *)
(*   src/src/utils/audio.ts   decodeBase64, hasWavHeader, stripWavHeader,  *)
(*                            createWavHeader, assembleWav                 *)
(*   src/src/inworld/tts.ts   streamSpeech (the reader loop)               *)
(* Buffers are sequences of bytes (0..255), strings are sequences of code  *)
(* points.  Offsets of the source are 0-based, sequences here 1-based.     *)
(***************************************************************************)
EXTENDS Integers, Sequences, FiniteSets, TLC

(***************************************************************************)
(* Bounds of the model.                                                    *)
(***************************************************************************)
\* bytes a generated buffer may extend beyond the 44-byte header zone
MaxTail == 3
\* chunks handed to assembleWav in the pure-function specification
MaxChunks == 2
\* bytes per chunk handed to assembleWav in the pure-function specification
MaxChunkLen == 2

(***************************************************************************)
(* Program constants.                                                      *)
(***************************************************************************)
\* audio.ts:25-26 and :45, the canonical header length
WavHeaderLen == 44
\* audio.ts:15, the shortest buffer that can hold the tag pair
TagZoneLen == 12
\* audio.ts:43, fileSize = 36 + dataLength
RiffSizeBias == 36
\* audio.ts:38, channels default
DefaultChannels == 1
\* audio.ts:39, bitsPerSample default
DefaultBitsPerSample == 16
\* config.ts:10
DefaultSampleRate == 48000

TagRIFF == <<82, 73, 70, 70>>
TagWAVE == <<87, 65, 86, 69>>
TagFmt == <<102, 109, 116, 32>>
TagData == <<100, 97, 116, 97>>

\* audio.ts:55, the range of writeUInt16LE; writeUInt32LE takes two such halves
UInt16Limit == 65536

(***************************************************************************)
(* Buffer primitives (Node's Buffer).                                      *)
(***************************************************************************)
Min(a, b) == IF a < b THEN a ELSE b

Max(a, b) == IF a > b THEN a ELSE b

\* buffer.subarray(start): the bytes from 0-based offset start on; empty
\* when start is at or beyond the end
subarray(buffer, start) ==
  IF start >= Len(buffer) THEN << >> ELSE SubSeq(buffer, start + 1, Len(buffer))

\* buffer.toString('ascii', start, end): Node clears the high bit of every
\* byte when it decodes as 'ascii', so byte b reads as character b % 128
toStringAscii(buffer, start, end) ==
  [i \in 1..(Min(end, Len(buffer)) - Min(start, Len(buffer))) |->
      buffer[Min(start, Len(buffer)) + i] % 128]

\* Buffer.concat(list)
RECURSIVE BufferConcat(_)
BufferConcat(list) ==
  IF list = << >> THEN << >> ELSE Head(list) \o BufferConcat(Tail(list))

\* value as n little-endian bytes
LEBytes(value, n) == [i \in 1..n |-> (value \div (256 ^ (i - 1))) % 256]

\* buf.readUInt32LE(offset), as a WAV reader decodes a header field
ReadUInt32LE(buf, offset) ==
  buf[offset + 1] + 256 * buf[offset + 2] + 65536 * buf[offset + 3]
    + 16777216 * buf[offset + 4]

ReadUInt16LE(buf, offset) == buf[offset + 1] + 256 * buf[offset + 2]

(***************************************************************************)
(* audio.ts                                                                *)
(***************************************************************************)
hasWavHeader(buffer) ==
  IF Len(buffer) < TagZoneLen THEN FALSE
  ELSE /\ toStringAscii(buffer, 0, 4) = TagRIFF
       /\ toStringAscii(buffer, 8, 12) = TagWAVE

\* mutant: nothing is ever stripped
stripWavHeader_Never(buffer) == buffer

\* mutant: strips whenever the buffer is long enough, without the tag check
stripWavHeader_NoTagCheck(buffer) ==
  IF Len(buffer) > WavHeaderLen THEN subarray(buffer, WavHeaderLen) ELSE buffer

stripWavHeader(buffer) ==
  IF hasWavHeader(buffer) /\ Len(buffer) > WavHeaderLen
  THEN subarray(buffer, WavHeaderLen)
  ELSE buffer

\* header.writeUInt32LE / writeUInt16LE throw a RangeError when the value
\* does not fit the field
FitsUInt32(v) == v >= 0 /\ (v \div UInt16Limit) < UInt16Limit

FitsUInt16(v) == v >= 0 /\ v < UInt16Limit

\* mutant: the data-length field is written from fileSize
createWavHeader_SizeSwapped(dataLength, sampleRate, channels, bitsPerSample) ==
  LET byteRate == (sampleRate * channels * bitsPerSample) \div 8
      blockAlign == (channels * bitsPerSample) \div 8
      fileSize == RiffSizeBias + dataLength
  IN  [threw |-> FALSE,
       buf |-> TagRIFF \o LEBytes(fileSize, 4) \o TagWAVE
               \o TagFmt \o LEBytes(16, 4) \o LEBytes(1, 2)
               \o LEBytes(channels, 2) \o LEBytes(sampleRate, 4)
               \o LEBytes(byteRate, 4) \o LEBytes(blockAlign, 2)
               \o LEBytes(bitsPerSample, 2)
               \o TagData \o LEBytes(fileSize, 4)]

\* the 44-byte header, or threw when a field write is out of range
createWavHeader(dataLength, sampleRate, channels, bitsPerSample) ==
  LET byteRate == (sampleRate * channels * bitsPerSample) \div 8
      blockAlign == (channels * bitsPerSample) \div 8
      fileSize == RiffSizeBias + dataLength
  IN  IF /\ FitsUInt32(fileSize) /\ FitsUInt16(channels)
         /\ FitsUInt32(sampleRate) /\ FitsUInt32(byteRate)
         /\ FitsUInt16(blockAlign) /\ FitsUInt16(bitsPerSample)
         /\ FitsUInt32(dataLength)
      THEN [threw |-> FALSE,
            buf |-> TagRIFF \o LEBytes(fileSize, 4) \o TagWAVE
                    \o TagFmt \o LEBytes(16, 4) \o LEBytes(1, 2)
                    \o LEBytes(channels, 2) \o LEBytes(sampleRate, 4)
                    \o LEBytes(byteRate, 4) \o LEBytes(blockAlign, 2)
                    \o LEBytes(bitsPerSample, 2)
                    \o TagData \o LEBytes(dataLength, 4)]
      ELSE [threw |-> TRUE, buf |-> << >>]

\* mutant: the chunks are concatenated in reverse order
RECURSIVE ReverseSeq(_)
ReverseSeq(s) == IF s = << >> THEN << >> ELSE ReverseSeq(Tail(s)) \o <<Head(s)>>

assembleWav_Reversed(chunks, sampleRate) ==
  LET rawData == BufferConcat(ReverseSeq(chunks))
      header == createWavHeader(Len(rawData), sampleRate,
                                DefaultChannels, DefaultBitsPerSample)
  IN  IF header.threw THEN header
      ELSE [threw |-> FALSE, buf |-> header.buf \o rawData]

\* mutant: an empty chunk list is reported as an error
assembleWav_ThrowsOnEmpty(chunks, sampleRate) ==
  LET rawData == BufferConcat(chunks)
      header == createWavHeader(Len(rawData), sampleRate,
                                DefaultChannels, DefaultBitsPerSample)
  IN  IF header.threw \/ chunks = << >> THEN [threw |-> TRUE, buf |-> << >>]
      ELSE [threw |-> FALSE, buf |-> header.buf \o rawData]

assembleWav(chunks, sampleRate) ==
  LET rawData == BufferConcat(chunks)
      header == createWavHeader(Len(rawData), sampleRate,
                                DefaultChannels, DefaultBitsPerSample)
  IN  IF header.threw THEN header
      ELSE [threw |-> FALSE, buf |-> header.buf \o rawData]

(***************************************************************************)
(* TextDecoder('utf-8').decode(value, { stream: true })  (tts.ts:70, :77)  *)
(* The WHATWG UTF-8 decoder: its state survives between calls, an          *)
(* incomplete sequence at the end of a call is held back, an ill-formed    *)
(* sequence yields U+FFFD, and a leading U+FEFF is dropped once.           *)
(***************************************************************************)
ReplacementChar == 65533
ByteOrderMark == 65279

NewDecoder ==
  [needed |-> 0, seen |-> 0, cp |-> 0, lower |-> 128, upper |-> 191,
   bomSeen |-> FALSE]

DecoderReset(d) ==
  [d EXCEPT !.needed = 0, !.seen = 0, !.cp = 0, !.lower = 128, !.upper = 191]

\* a byte arriving when no sequence is open
Utf8Lead(d, b) ==
  IF b <= 127 THEN [d |-> d, out |-> <<b>>]
  ELSE IF b >= 194 /\ b <= 223
  THEN [d |-> [d EXCEPT !.needed = 1, !.cp = b % 32], out |-> << >>]
  ELSE IF b >= 224 /\ b <= 239
  THEN [d |-> [d EXCEPT !.needed = 2, !.cp = b % 16,
                        !.lower = IF b = 224 THEN 160 ELSE 128,
                        !.upper = IF b = 237 THEN 159 ELSE 191],
        out |-> << >>]
  ELSE IF b >= 240 /\ b <= 244
  THEN [d |-> [d EXCEPT !.needed = 3, !.cp = b % 8,
                        !.lower = IF b = 240 THEN 144 ELSE 128,
                        !.upper = IF b = 244 THEN 143 ELSE 191],
        out |-> << >>]
  ELSE [d |-> d, out |-> <<ReplacementChar>>]

Utf8Byte(d, b) ==
  IF d.needed = 0 THEN Utf8Lead(d, b)
  ELSE IF b < d.lower \/ b > d.upper
  THEN \* ill-formed: U+FFFD, and the byte is processed again from scratch
       LET again == Utf8Lead(DecoderReset(d), b)
       IN  [d |-> again.d, out |-> <<ReplacementChar>> \o again.out]
  ELSE LET cp2 == d.cp * 64 + (b % 64)
       IN  IF d.seen + 1 = d.needed
           THEN [d |-> DecoderReset(d), out |-> <<cp2>>]
           ELSE [d |-> [d EXCEPT !.cp = cp2, !.seen = @ + 1,
                                 !.lower = 128, !.upper = 191],
                 out |-> << >>]

\* the bytes lo..hi in order, by halves
RECURSIVE Utf8Run(_, _, _, _)
Utf8Run(d, bytes, lo, hi) ==
  IF lo > hi THEN [d |-> d, out |-> << >>]
  ELSE IF lo = hi THEN Utf8Byte(d, bytes[lo])
  ELSE LET mid == (lo + hi) \div 2
           left == Utf8Run(d, bytes, lo, mid)
       IN  \* the test makes the checker finish the left half first
           IF left.d.needed < 0 THEN left
           ELSE LET right == Utf8Run(left.d, bytes, mid + 1, hi)
                IN  [d |-> right.d, out |-> left.out \o right.out]

\* mutant: a decoder that forgets an open sequence between calls
\* (decode without { stream: true })
decode_NoStream(d, value) ==
  LET r == Utf8Run(DecoderReset(d), value, 1, Len(value))
      flushed == IF r.d.needed # 0 THEN r.out \o <<ReplacementChar>> ELSE r.out
  IN  [d |-> DecoderReset(r.d), out |-> flushed]

\* decoder.decode(value, { stream: true }): the text decoded by this call
\* and the decoder state left for the next
decode(d, value) ==
  LET r == Utf8Run(d, value, 1, Len(value))
  IN  IF r.d.bomSeen \/ r.out = << >> THEN r
      ELSE [d |-> [r.d EXCEPT !.bomSeen = TRUE],
            out |-> IF Head(r.out) = ByteOrderMark THEN Tail(r.out) ELSE r.out]

(***************************************************************************)
(* String primitives of the loop body (tts.ts:80-84, :99).                 *)
(***************************************************************************)
LineFeed == 10

SetMin(S) == CHOOSE x \in S : \A y \in S : x <= y

\* text.split('\n'): always at least one piece
RECURSIVE split(_)
split(text) ==
  LET nl == { i \in 1..Len(text) : text[i] = LineFeed }
  IN  IF nl = {} THEN <<text>>
      ELSE LET j == SetMin(nl)
           IN  <<SubSeq(text, 1, j - 1)>> \o split(SubSeq(text, j + 1, Len(text)))

\* the characters String.prototype.trim removes: WhiteSpace and
\* LineTerminator of ECMAScript
TrimSet ==
  {9, 10, 11, 12, 13, 32, 160, 5760, 8232, 8233, 8239, 8287, 12288, ByteOrderMark}
    \cup (8192..8202)

\* !line.trim()
trimIsEmpty(line) == \A i \in 1..Len(line) : line[i] \in TrimSet

\* line.substring(0, 100)
WarnPrefixLen == 100

substring(line, n) == SubSeq(line, 1, Min(n, Len(line)))

(***************************************************************************)
(* JSON.parse (tts.ts:87) on the grammar the modelled streams use:         *)
(* objects, arrays, strings with the simple escapes, integers, true,       *)
(* false, null and JSON whitespace.  Fractions, exponents and \u escapes   *)
(* occur in no modelled stream and are rejected here.                      *)
(***************************************************************************)
JV(t, s, n, keys, vals) == [t |-> t, s |-> s, n |-> n, keys |-> keys, vals |-> vals]

JUndefined == JV("undefined", << >>, 0, << >>, << >>)
JNull == JV("null", << >>, 0, << >>, << >>)
JStr(s) == JV("str", s, 0, << >>, << >>)
JNum(n) == JV("num", << >>, n, << >>, << >>)
JBool(b) == JV("bool", << >>, IF b THEN 1 ELSE 0, << >>, << >>)
JObj(keys, vals) == JV("obj", << >>, 0, keys, vals)
JArr(vals) == JV("arr", << >>, 0, << >>, vals)

JsonWs == {32, 9, 10, 13}

ParseFail == [ok |-> FALSE, pos |-> 0, val |-> JUndefined]

ParseOk(pos, val) == [ok |-> TRUE, pos |-> pos, val |-> val]

RECURSIVE SkipWs(_, _)
SkipWs(t, i) == IF i <= Len(t) /\ t[i] \in JsonWs THEN SkipWs(t, i + 1) ELSE i

At(t, i) == IF i >= 1 /\ i <= Len(t) THEN t[i] ELSE -1

\* the character an escape \c stands for, -1 when c opens no simple escape
Unescape(c) ==
  CASE c = 34 -> 34 [] c = 92 -> 92 [] c = 47 -> 47 [] c = 98 -> 8
    [] c = 102 -> 12 [] c = 110 -> 10 [] c = 114 -> 13 [] c = 116 -> 9
    [] OTHER -> -1

\* one character of a string body: mode is "in" (inside the string), "esc"
\* (after a backslash), "end" (closing quote seen, at index pos - 1) or "bad"
StringChar(st, t, j) ==
  IF st.mode \in {"end", "bad"} THEN st
  ELSE IF st.mode = "esc"
  THEN IF Unescape(t[j]) = -1 THEN [st EXCEPT !.mode = "bad"]
       ELSE [st EXCEPT !.mode = "in", !.acc = Append(@, Unescape(t[j]))]
  ELSE IF t[j] = 34 THEN [st EXCEPT !.mode = "end", !.pos = j + 1]
  ELSE IF t[j] < 32 THEN [st EXCEPT !.mode = "bad"]
  ELSE IF t[j] = 92 THEN [st EXCEPT !.mode = "esc"]
  ELSE [st EXCEPT !.acc = Append(@, t[j])]

\* the characters lo..hi in order, by halves
RECURSIVE StringRun(_, _, _, _)
StringRun(st, t, lo, hi) ==
  IF lo > hi \/ st.mode \in {"end", "bad"} THEN st
  ELSE IF lo = hi THEN StringChar(st, t, lo)
  ELSE LET mid == (lo + hi) \div 2
           left == StringRun(st, t, lo, mid)
       IN  \* the test makes the checker finish the left half first
           IF left.mode = "bad" THEN left
           ELSE StringRun(left, t, mid + 1, hi)

\* a string, from the character after the opening quote
ScanString(t, j, acc) ==
  LET st == StringRun([mode |-> "in", acc |-> acc, pos |-> 0], t, j, Len(t))
  IN  IF st.mode = "end" THEN ParseOk(st.pos, JStr(st.acc)) ELSE ParseFail

IsDigit(c) == c >= 48 /\ c <= 57

RECURSIVE ScanDigits(_, _, _)
ScanDigits(t, j, acc) ==
  IF IsDigit(At(t, j)) THEN ScanDigits(t, j + 1, acc * 10 + (t[j] - 48))
  ELSE [pos |-> j, n |-> acc]

\* -? ( 0 | [1-9][0-9]* )
ParseNumber(t, i) ==
  LET neg == At(t, i) = 45
      start == IF neg THEN i + 1 ELSE i
      d == ScanDigits(t, start, 0)
  IN  IF ~IsDigit(At(t, start)) THEN ParseFail
      ELSE IF t[start] = 48 /\ d.pos > start + 1 THEN ParseFail
      ELSE IF At(t, d.pos) \in {46, 69, 101} THEN ParseFail
      ELSE ParseOk(d.pos, JNum(IF neg THEN 0 - d.n ELSE d.n))

ParseLiteral(t, i, word, val) ==
  IF i + Len(word) - 1 <= Len(t) /\ SubSeq(t, i, i + Len(word) - 1) = word
  THEN ParseOk(i + Len(word), val)
  ELSE ParseFail

WordTrue == <<116, 114, 117, 101>>
WordFalse == <<102, 97, 108, 115, 101>>
WordNull == <<110, 117, 108, 108>>

RECURSIVE ParseValue(_, _)
RECURSIVE ParseMembers(_, _, _, _)
RECURSIVE ParseElements(_, _, _)

\* at a member's key; keys and vals are the members read so far
ParseMembers(t, i, keys, vals) ==
  IF At(t, i) # 34 THEN ParseFail
  ELSE LET k == ScanString(t, i + 1, << >>)
       IN  IF ~k.ok THEN ParseFail
           ELSE LET c == SkipWs(t, k.pos)
                IN  IF At(t, c) # 58 THEN ParseFail
                    ELSE LET v == ParseValue(t, c + 1)
                         IN  IF ~v.ok THEN ParseFail
                             ELSE LET e == SkipWs(t, v.pos)
                                      keys2 == Append(keys, k.val.s)
                                      vals2 == Append(vals, v.val)
                                  IN  IF At(t, e) = 125
                                      THEN ParseOk(e + 1, JObj(keys2, vals2))
                                      ELSE IF At(t, e) = 44
                                      THEN ParseMembers(t, SkipWs(t, e + 1), keys2, vals2)
                                      ELSE ParseFail

\* at an element; vals are the elements read so far
ParseElements(t, i, vals) ==
  LET v == ParseValue(t, i)
  IN  IF ~v.ok THEN ParseFail
      ELSE LET e == SkipWs(t, v.pos)
               vals2 == Append(vals, v.val)
           IN  IF At(t, e) = 93 THEN ParseOk(e + 1, JArr(vals2))
               ELSE IF At(t, e) = 44 THEN ParseElements(t, e + 1, vals2)
               ELSE ParseFail

ParseValue(t, i) ==
  LET j == SkipWs(t, i)
      c == At(t, j)
  IN  IF c = 123
      THEN LET m == SkipWs(t, j + 1)
           IN  IF At(t, m) = 125 THEN ParseOk(m + 1, JObj(<< >>, << >>))
               ELSE ParseMembers(t, m, << >>, << >>)
      ELSE IF c = 91
      THEN LET m == SkipWs(t, j + 1)
           IN  IF At(t, m) = 93 THEN ParseOk(m + 1, JArr(<< >>))
               ELSE ParseElements(t, m, << >>)
      ELSE IF c = 34 THEN ScanString(t, j + 1, << >>)
      ELSE IF c = 45 \/ IsDigit(c) THEN ParseNumber(t, j)
      ELSE IF c = 116 THEN ParseLiteral(t, j, WordTrue, JBool(TRUE))
      ELSE IF c = 102 THEN ParseLiteral(t, j, WordFalse, JBool(FALSE))
      ELSE IF c = 110 THEN ParseLiteral(t, j, WordNull, JNull)
      ELSE ParseFail

\* JSON.parse(line): threw (a SyntaxError) or the value
JSONparse(line) ==
  LET r == ParseValue(line, 1)
  IN  IF r.ok /\ SkipWs(line, r.pos) = Len(line) + 1
      THEN [threw |-> FALSE, val |-> r.val]
      ELSE [threw |-> TRUE, val |-> JUndefined]

\* v[key] on a parsed value that is neither null nor undefined: the last
\* member of that name of an object, undefined on anything else
GetProp(v, key) ==
  IF v.t # "obj" THEN JUndefined
  ELSE LET hits == { k \in 1..Len(v.keys) : v.keys[k] = key }
       IN  IF hits = {} THEN JUndefined
           ELSE v.vals[CHOOSE k \in hits : \A h \in hits : h <= k]

\* ToBoolean
Truthy(v) ==
  CASE v.t = "str" -> v.s # << >>
    [] v.t = "num" -> v.n # 0
    [] v.t = "bool" -> v.n = 1
    [] v.t \in {"undefined", "null"} -> FALSE
    [] OTHER -> TRUE

KeyResult == <<114, 101, 115, 117, 108, 116>>
KeyAudioContent == <<97, 117, 100, 105, 111, 67, 111, 110, 116, 101, 110, 116>>

(***************************************************************************)
(* decodeBase64 (audio.ts:7-9): Buffer.from(base64, 'base64').  Node's     *)
(* decoder skips every character outside the alphabet, accepts the URL     *)
(* alphabet too, and stops at the first '='.                               *)
(***************************************************************************)
unbase64(c) ==
  IF c >= 65 /\ c <= 90 THEN c - 65
  ELSE IF c >= 97 /\ c <= 122 THEN c - 71
  ELSE IF c >= 48 /\ c <= 57 THEN c + 4
  ELSE IF c = 43 \/ c = 45 THEN 62
  ELSE IF c = 47 \/ c = 95 THEN 63
  ELSE -1

IsBase64Char(c) == unbase64(c) >= 0

Base64Bytes(str) ==
  LET pads == { i \in 1..Len(str) : str[i] = 61 }
      stop == IF pads = {} THEN Len(str) ELSE SetMin(pads) - 1
      chars == SelectSeq(SubSeq(str, 1, stop), IsBase64Char)
      n == Len(chars)
      outLen == 3 * (n \div 4) + (IF n % 4 = 0 THEN 0 ELSE (n % 4) - 1)
      sx(k) == unbase64(chars[k])
  IN  [k \in 1..outLen |->
        LET g == 4 * ((k - 1) \div 3)
            r == (k - 1) % 3
        IN  IF r = 0 THEN sx(g + 1) * 4 + (sx(g + 2) \div 16)
            ELSE IF r = 1 THEN (sx(g + 2) % 16) * 16 + (sx(g + 3) \div 4)
            ELSE (sx(g + 3) % 4) * 64 + sx(g + 4)]

\* decodeBase64 of a parsed JSON value: a string is decoded, an array
\* gives its elements as bytes, anything else makes Buffer.from throw a
\* TypeError (objects with a length or a Buffer shape are in no modelled
\* stream)
decodeBase64(v) ==
  IF v.t = "str" THEN [threw |-> FALSE, buf |-> Base64Bytes(v.s)]
  ELSE IF v.t = "arr"
  THEN [threw |-> FALSE,
        buf |-> [k \in 1..Len(v.vals) |->
                  IF v.vals[k].t = "num" THEN v.vals[k].n % 256 ELSE 0]]
  ELSE [threw |-> TRUE, buf |-> << >>]

(***************************************************************************)
(* Inputs of the pure-function specification.                              *)
(***************************************************************************)
\* position-dependent filler bytes, so that a shifted buffer differs
Fill(n, seed) == [i \in 1..n |-> (seed + 3 * i) % 256]

\* 'RIFF', 'RIFX', and 'RIFF' with the high bit of the first byte set
Tag0Set == {TagRIFF, <<82, 73, 70, 88>>, <<210, 73, 70, 70>>}

\* 'WAVE', 'AVI ', and 'WAVE' with the high bit of the last byte set
Tag8Set == {TagWAVE, <<65, 86, 73, 32>>, <<87, 65, 86, 197>>}

RawBuffer(t0, t8, seed) ==
  t0 \o <<36, 0, 0, 0>> \o t8 \o Fill(WavHeaderLen - TagZoneLen + MaxTail, seed)

SimpleBuffers ==
  { SubSeq(RawBuffer(t0, t8, 7), 1, n) :
      t0 \in Tag0Set, t8 \in Tag8Set, n \in 0..(WavHeaderLen + MaxTail) }

\* a genuine 44-byte header followed by any simple buffer
NestedBuffers ==
  { SubSeq(RawBuffer(TagRIFF, TagWAVE, 100), 1, WavHeaderLen) \o b :
      b \in SimpleBuffers }

InputBuffers == SimpleBuffers \cup NestedBuffers

ChunkPool == { Fill(n, seed) : n \in 0..MaxChunkLen, seed \in {0, 250} }

RECURSIVE SeqsUpTo(_, _)
SeqsUpTo(S, n) ==
  IF n = 0 THEN { << >> }
  ELSE LET shorter == SeqsUpTo(S, n - 1)
       IN  shorter \cup { Append(s, x) : s \in shorter, x \in S }

ChunkLists == SeqsUpTo(ChunkPool, MaxChunks)

\* 134217727 is the largest rate whose sampleRate * channels * bitsPerSample the
\* checker's integers hold;
\* a negative rate makes writeUInt32LE throw
SampleRates == {-1, 0, 8000, 22050, DefaultSampleRate, 134217727}

VARIABLES aPc, aIn, aOnce, aTwice, aChunks, aRate, aWav

audioVars == <<aPc, aIn, aOnce, aTwice, aChunks, aRate, aWav>>

VARIABLES
  vendorLines,    \* the line kinds the vendor sends
  terminated,     \* whether the last line ends with a newline
  stream,         \* the response body's bytes
  reqSampleRate,  \* streamSpeech's sampleRate argument
  pc,             \* "start", "reading", "done"
  pos,            \* bytes of stream already returned by reader.read()
  req,            \* decoder, buffer, chunks, firstChunkTime, warnings
  startTime,      \* tts.ts:64
  now,            \* the least value performance.now() may return next
  returned        \* the value returned at tts.ts:107

streamVars ==
  <<vendorLines, terminated, stream, reqSampleRate, pc, pos, req, startTime, now,
    returned>>

VARIABLES
  httpReq,        \* the HTTP request: [endpoint, body]
  config,         \* config.ts: [inworldApiKey, openaiApiKey]
  upstream,       \* how the vendor and the LLM answer this request
  handler,        \* the route handler's position and locals
  fetched,        \* the fetch calls made to the vendor
  llmCalls,       \* the number of chat completion calls made
  responses,      \* the HTTP responses sent
  consoleError    \* the lines written with console.error

serverVars ==
  <<httpReq, config, upstream, handler, fetched, llmCalls, responses, consoleError>>

\* the locals of two streamSpeech calls in flight together
VARIABLE pair

\* the browser application and the audio script, one instance of each
VARIABLES
  hook,           \* a mounted useAskTutor or useAIExplain hook
  tutor,          \* a mounted AskTutor component
  script,         \* a run of scripts/generate-audio.ts
  player          \* a mounted AudioPlayer component

appVars == <<hook, tutor, script, player>>

vars == <<audioVars, streamVars, serverVars, pair, appVars>>

NoWav == [threw |-> FALSE, buf |-> << >>]

AudioInit ==
  /\ aOnce = << >>
  /\ aTwice = << >>
  /\ aWav = NoWav
  /\ \/ /\ aPc = "strip"
        /\ aIn \in InputBuffers
        /\ aChunks = << >>
        /\ aRate = DefaultSampleRate
     \/ /\ aPc = "assemble"
        /\ aIn = << >>
        /\ aChunks \in ChunkLists
        /\ aRate \in SampleRates

\* audioData = stripWavHeader(audioData)
StripOnce ==
  /\ aPc = "strip"
  /\ aOnce' = stripWavHeader(aIn)
  /\ aPc' = "stripped"
  /\ UNCHANGED <<aIn, aTwice, aChunks, aRate, aWav>>
  /\ UNCHANGED streamVars
  /\ UNCHANGED serverVars
  /\ UNCHANGED pair
  /\ UNCHANGED appVars

\* the strip applied to an already-stripped buffer
StripTwice ==
  /\ aPc = "stripped"
  /\ aTwice' = stripWavHeader(aOnce)
  /\ aPc' = "restripped"
  /\ UNCHANGED <<aIn, aOnce, aChunks, aRate, aWav>>
  /\ UNCHANGED streamVars
  /\ UNCHANGED serverVars
  /\ UNCHANGED pair
  /\ UNCHANGED appVars

\* audioBuffer = assembleWav(chunks, sampleRate)
Assemble ==
  /\ aPc = "assemble"
  /\ aWav' = assembleWav(aChunks, aRate)
  /\ aPc' = "assembled"
  /\ UNCHANGED <<aIn, aOnce, aTwice, aChunks, aRate>>
  /\ UNCHANGED streamVars
  /\ UNCHANGED serverVars
  /\ UNCHANGED pair
  /\ UNCHANGED appVars

(***************************************************************************)
(* tts.ts, streamSpeech: the body of the reader loop (lines 77-101) as     *)
(* operators on the request's state                                        *)
(*   [decoder, buffer, chunks, firstChunkTime, warnings]                   *)
(***************************************************************************)
\* firstChunkTime === null
Null == -1

\* mutant: a chunk equal to the one before it is taken for a repeat and dropped
processLine_Dedup(s, line, t) ==
  IF trimIsEmpty(line) THEN s
  ELSE LET warned == [s EXCEPT !.warnings = Append(@, substring(line, WarnPrefixLen))]
           parsed == JSONparse(line)
       IN  IF parsed.threw THEN warned
           \* chunk.result on null is a TypeError, caught like a SyntaxError
           ELSE IF parsed.val.t = "null" THEN warned
           ELSE LET result == GetProp(parsed.val, KeyResult)
                    \* chunk.result?.audioContent
                    audioContent == IF result.t \in {"undefined", "null"}
                                    THEN JUndefined
                                    ELSE GetProp(result, KeyAudioContent)
                IN  IF ~Truthy(audioContent) THEN s
                    ELSE LET timed == IF s.firstChunkTime = Null
                                      THEN [s EXCEPT !.firstChunkTime = t]
                                      ELSE s
                             audioData == decodeBase64(audioContent)
                         IN  IF audioData.threw
                             THEN [timed EXCEPT !.warnings =
                                     Append(@, substring(line, WarnPrefixLen))]
                             ELSE LET data == stripWavHeader(audioData.buf)
                                      n == Len(timed.chunks)
                                  IN  IF n > 0 /\ timed.chunks[n] = data THEN timed
                                      ELSE [timed EXCEPT !.chunks = Append(@, data)]

\* mutant: the first-chunk time is taken after the content was decoded
processLine_TimeAfterDecode(s, line, t) ==
  IF trimIsEmpty(line) THEN s
  ELSE LET warned == [s EXCEPT !.warnings = Append(@, substring(line, WarnPrefixLen))]
           parsed == JSONparse(line)
       IN  IF parsed.threw THEN warned
           ELSE IF parsed.val.t = "null" THEN warned
           ELSE LET result == GetProp(parsed.val, KeyResult)
                    audioContent == IF result.t \in {"undefined", "null"}
                                    THEN JUndefined
                                    ELSE GetProp(result, KeyAudioContent)
                IN  IF ~Truthy(audioContent) THEN s
                    ELSE LET audioData == decodeBase64(audioContent)
                         IN  IF audioData.threw THEN warned
                             ELSE [s EXCEPT
                                     !.firstChunkTime = IF @ = Null THEN t ELSE @,
                                     !.chunks = Append(@, stripWavHeader(audioData.buf))]

\* mutant: only the first chunk of a request is looked at for a header
processLine_StripFirstOnly(s, line, t) ==
  IF trimIsEmpty(line) THEN s
  ELSE LET warned == [s EXCEPT !.warnings = Append(@, substring(line, WarnPrefixLen))]
           parsed == JSONparse(line)
       IN  IF parsed.threw THEN warned
           ELSE IF parsed.val.t = "null" THEN warned
           ELSE LET result == GetProp(parsed.val, KeyResult)
                    audioContent == IF result.t \in {"undefined", "null"}
                                    THEN JUndefined
                                    ELSE GetProp(result, KeyAudioContent)
                IN  IF ~Truthy(audioContent) THEN s
                    ELSE LET timed == IF s.firstChunkTime = Null
                                      THEN [s EXCEPT !.firstChunkTime = t]
                                      ELSE s
                             audioData == decodeBase64(audioContent)
                         IN  IF audioData.threw
                             THEN [timed EXCEPT !.warnings =
                                     Append(@, substring(line, WarnPrefixLen))]
                             ELSE [timed EXCEPT !.chunks =
                                     Append(@, IF s.chunks = << >>
                                               THEN stripWavHeader(audioData.buf)
                                               ELSE audioData.buf)]

\* one iteration of `for (const line of lines)`; t is what performance.now()
\* returns if this line calls it
processLine(s, line, t) ==
  IF trimIsEmpty(line) THEN s
  ELSE LET warned == [s EXCEPT !.warnings = Append(@, substring(line, WarnPrefixLen))]
           parsed == JSONparse(line)
       IN  IF parsed.threw THEN warned
           \* chunk.result on null is a TypeError, caught like a SyntaxError
           ELSE IF parsed.val.t = "null" THEN warned
           ELSE LET result == GetProp(parsed.val, KeyResult)
                    \* chunk.result?.audioContent
                    audioContent == IF result.t \in {"undefined", "null"}
                                    THEN JUndefined
                                    ELSE GetProp(result, KeyAudioContent)
                IN  IF ~Truthy(audioContent) THEN s
                    ELSE LET timed == IF s.firstChunkTime = Null
                                      THEN [s EXCEPT !.firstChunkTime = t]
                                      ELSE s
                             audioData == decodeBase64(audioContent)
                         IN  IF audioData.threw
                             THEN [timed EXCEPT !.warnings =
                                     Append(@, substring(line, WarnPrefixLen))]
                             ELSE [timed EXCEPT !.chunks =
                                     Append(@, stripWavHeader(audioData.buf))]

\* mutant: the try/catch wraps the whole for loop, so a line that fails to
\* parse ends the processing of the lines of this read
RECURSIVE processLines_StopAtBadLine(_, _, _)
processLines_StopAtBadLine(s, lines, t) ==
  IF lines = << >> THEN s
  ELSE LET after == processLine(s, Head(lines), t)
       IN  IF Len(after.warnings) > Len(s.warnings) THEN after
           ELSE processLines_StopAtBadLine(after, Tail(lines), t)

RECURSIVE processLines(_, _, _)
processLines(s, lines, t) ==
  IF lines = << >> THEN s
  ELSE processLines(processLine(s, Head(lines), t), Tail(lines), t)

\* mutant: the incomplete last line is not kept for the next read
processRead_NoCarry(s, value, t) ==
  LET dec == decode(s.decoder, value)
      text == s.buffer \o dec.out
      pieces == split(text)
      lines == SubSeq(pieces, 1, Len(pieces) - 1)
  IN  processLines([s EXCEPT !.decoder = dec.d, !.buffer = << >>], lines, t)

\* lines 77-101 for one `value` returned by reader.read()
processRead(s, value, t) ==
  LET dec == decode(s.decoder, value)
      text == s.buffer \o dec.out
      pieces == split(text)
      \* buffer = lines.pop() || ''
      kept == pieces[Len(pieces)]
      lines == SubSeq(pieces, 1, Len(pieces) - 1)
  IN  processLines([s EXCEPT !.decoder = dec.d, !.buffer = kept], lines, t)

\* lines 65-71: the state the loop starts from
NewRequestState ==
  [decoder |-> NewDecoder, buffer |-> << >>, chunks |-> << >>,
   firstChunkTime |-> Null, warnings |-> << >>]

\* mutant: a request that took more than one tick returns what it had when
\* the first chunk arrived
streamResult_EarlyExit(s, rate, t0, t1) ==
  LET wav == assembleWav(IF t1 - t0 > 1 /\ Len(s.chunks) > 1 THEN <<s.chunks[1]>>
                         ELSE s.chunks, rate)
  IN  [threw |-> wav.threw,
       audioBuffer |-> wav.buf,
       timeToFirstChunk |-> IF s.firstChunkTime # Null /\ s.firstChunkTime # 0
                            THEN s.firstChunkTime - t0 ELSE 0,
       totalTime |-> t1 - t0]

\* mutant: totalTime is measured from the first chunk, not from the start
streamResult_TotalFromFirstChunk(s, rate, t0, t1) ==
  LET wav == assembleWav(s.chunks, rate)
  IN  [threw |-> wav.threw,
       audioBuffer |-> wav.buf,
       timeToFirstChunk |-> IF s.firstChunkTime # Null /\ s.firstChunkTime # 0
                            THEN s.firstChunkTime - t0 ELSE 0,
       totalTime |-> IF s.firstChunkTime # Null THEN t1 - s.firstChunkTime
                     ELSE t1 - t0]

\* mutant: what is left in the buffer at end-of-stream is parsed as a line
streamResult_ParsesTail(s, rate, t0, t1) ==
  LET flushed == processLine(s, s.buffer, t1)
      wav == assembleWav(flushed.chunks, rate)
  IN  [threw |-> wav.threw,
       audioBuffer |-> wav.buf,
       timeToFirstChunk |-> IF flushed.firstChunkTime # Null /\ flushed.firstChunkTime # 0
                            THEN flushed.firstChunkTime - t0 ELSE 0,
       totalTime |-> t1 - t0]

\* lines 104-113: the value streamSpeech returns
streamResult(s, rate, t0, t1) ==
  LET wav == assembleWav(s.chunks, rate)
  IN  [threw |-> wav.threw,
       audioBuffer |-> wav.buf,
       \* firstChunkTime ? firstChunkTime - startTime : 0
       timeToFirstChunk |-> IF s.firstChunkTime # Null /\ s.firstChunkTime # 0
                            THEN s.firstChunkTime - t0 ELSE 0,
       \* endTime - startTime
       totalTime |-> t1 - t0]

(***************************************************************************)
(* The vendor's response body: newline-delimited JSON, one line per        *)
(* record (types.ts:20-24), built here from line kinds.                    *)
(***************************************************************************)
\* lines per stream
MaxLines == 2
\* bytes one reader.read() delivers, unless it delivers all that is left
MaxRead == 2
\* the last clock value the model distinguishes
MaxClock == 4

\* standard base64 with padding, as the vendor encodes audioContent
Base64Char(v) ==
  IF v < 26 THEN 65 + v ELSE IF v < 52 THEN 71 + v
  ELSE IF v < 62 THEN v - 4 ELSE IF v = 62 THEN 43 ELSE 47

Base64Encode(bytes) ==
  LET n == Len(bytes)
      groups == (n + 2) \div 3
      b(k) == IF k <= n THEN bytes[k] ELSE 0
  IN  [i \in 1..(4 * groups) |->
        LET g == 3 * ((i - 1) \div 4)
            r == (i - 1) % 4
        IN  IF r = 0 THEN Base64Char(b(g + 1) \div 4)
            ELSE IF r = 1 THEN Base64Char((b(g + 1) % 4) * 16 + (b(g + 2) \div 16))
            ELSE IF r = 2
            THEN IF g + 2 > n THEN 61
                 ELSE Base64Char((b(g + 2) % 16) * 4 + (b(g + 3) \div 64))
            ELSE IF g + 3 > n THEN 61 ELSE Base64Char(b(g + 3) % 64)]

\* {"result":{"audioContent":"  and  "}}
RecordOpen ==
  <<123, 34, 114, 101, 115, 117, 108, 116, 34, 58, 123, 34, 97, 117, 100, 105,
    111, 67, 111, 110, 116, 101, 110, 116, 34, 58, 34>>
RecordClose == <<34, 125, 125>>

AudioRecord(payload) == RecordOpen \o Base64Encode(payload) \o RecordClose

\* raw PCM bytes, and PCM behind an embedded 44-byte RIFF/WAVE header
PayloadPcm == <<1, 2, 3, 250>>
PayloadWav == SubSeq(RawBuffer(TagRIFF, TagWAVE, 100), 1, WavHeaderLen) \o <<9, 8>>

LineKinds == {"pcm", "wav", "control", "blank", "garbage", "null", "numeric"}

\* the two records of the end-to-end scenario: a 44-byte RIFF/WAVE header
\* followed by 100 PCM bytes, and 50 PCM bytes
ScenarioPcm100 == Fill(100, 7)
ScenarioPcm50 == Fill(50, 11)
PayloadWav100 ==
  SubSeq(RawBuffer(TagRIFF, TagWAVE, 100), 1, WavHeaderLen) \o ScenarioPcm100
Scenario == <<"wav100", "pcm50">>

AudioKinds == {"pcm", "wav", "wav100", "pcm50"}

\* the bytes of a line of each kind, without its newline
LineBytes(kind) ==
  CASE kind = "pcm" -> AudioRecord(PayloadPcm)
    [] kind = "wav" -> AudioRecord(PayloadWav)
    [] kind = "wav100" -> AudioRecord(PayloadWav100)
    [] kind = "pcm50" -> AudioRecord(ScenarioPcm50)
    \* {"result":{}}  a record without audio
    [] kind = "control" ->
         <<123, 34, 114, 101, 115, 117, 108, 116, 34, 58, 123, 125, 125>>
    \* a space and a carriage return
    [] kind = "blank" -> <<32, 13>>
    \* {"e-acute"  cut short: not JSON, with a two-byte character inside
    [] kind = "garbage" -> <<123, 34, 195, 169, 34>>
    \* null  valid JSON that is no object
    [] kind = "null" -> <<110, 117, 108, 108>>
    \* {"result":{"audioContent":5}}  audio content that is no string
    [] kind = "numeric" ->
         <<123, 34, 114, 101, 115, 117, 108, 116, 34, 58, 123, 34, 97, 117, 100,
           105, 111, 67, 111, 110, 116, 101, 110, 116, 34, 58, 53, 125, 125>>

PayloadOf(kind) ==
  CASE kind = "pcm" -> PayloadPcm
    [] kind = "wav" -> PayloadWav
    [] kind = "wav100" -> PayloadWav100
    [] kind = "pcm50" -> ScenarioPcm50

RECURSIVE JoinLines(_)
JoinLines(kinds) ==
  IF kinds = << >> THEN << >>
  ELSE LineBytes(Head(kinds)) \o <<LineFeed>> \o JoinLines(Tail(kinds))

\* the body's bytes; closed = the last line ends with a newline
StreamBytes(kinds, closed) ==
  LET all == JoinLines(kinds)
  IN  IF closed \/ kinds = << >> THEN all ELSE SubSeq(all, 1, Len(all) - 1)

LineLists == SeqsUpTo(LineKinds, MaxLines)

\* the bodies a vendor may send: every short list of lines, and the scenario
VendorStreams == LineLists \cup {Scenario}

(***************************************************************************)
(* One streamSpeech request.                                               *)
(***************************************************************************)
NoResult ==
  [threw |-> FALSE, audioBuffer |-> << >>, timeToFirstChunk |-> 0, totalTime |-> 0]

\* the state in which no request runs (the pure-function specification)
StreamIdle ==
  /\ vendorLines = << >>
  /\ terminated = TRUE
  /\ stream = << >>
  /\ reqSampleRate = DefaultSampleRate
  /\ pc = "idle"
  /\ pos = 0
  /\ req = NewRequestState
  /\ startTime = 0
  /\ now = 1
  /\ returned = NoResult

\* the state in which no pure function is being applied
AudioIdle ==
  /\ aPc = "idle"
  /\ aIn = << >>
  /\ aOnce = << >>
  /\ aTwice = << >>
  /\ aChunks = << >>
  /\ aRate = DefaultSampleRate
  /\ aWav = NoWav

StreamInit ==
  /\ vendorLines \in VendorStreams
  /\ terminated \in BOOLEAN
  /\ (vendorLines = << >> => terminated)
  /\ stream = StreamBytes(vendorLines, terminated)
  /\ reqSampleRate = DefaultSampleRate
  /\ pc = "start"
  /\ pos = 0
  /\ req = NewRequestState
  /\ startTime = 0
  \* performance.now() counts from process start: positive when a request runs
  /\ now = 1
  /\ returned = NoResult

\* the values performance.now() may return when called next: the clock is
\* monotonic, and any time may have passed since the last call
ClockNext == now..MaxClock

\* lines 64-71: take the start time, then await postStream, which takes
\* at least one tick
Start ==
  /\ pc = "start"
  /\ startTime' = now
  /\ now' = now + 1
  /\ req' = NewRequestState
  /\ pc' = "reading"
  /\ UNCHANGED <<vendorLines, terminated, stream, reqSampleRate, pos, returned>>
  /\ UNCHANGED audioVars
  /\ UNCHANGED appVars
  /\ UNCHANGED pair
  /\ UNCHANGED serverVars

\* the sizes of the next value reader.read() may return: a few bytes, or,
\* when the bytes read so far ended a line, all that remains
ReadSizes ==
  (1..MaxRead) \cup (IF pos = 0 \/ stream[pos] = LineFeed
                     THEN {Len(stream) - pos} ELSE {})

\* lines 74-101: reader.read() returns the next n bytes, n > 0
Read ==
  /\ pc = "reading"
  /\ pos < Len(stream)
  /\ \E n \in ReadSizes :
       /\ pos + n <= Len(stream)
       /\ LET value == SubSeq(stream, pos + 1, pos + n)
              after == processRead(req, value, now)
          IN  IF after.firstChunkTime = req.firstChunkTime
              THEN req' = after /\ now' = now
              \* line 90 called performance.now()
              ELSE \E t \in ClockNext :
                     /\ req' = [after EXCEPT !.firstChunkTime = t]
                     /\ now' = t
       /\ pos' = pos + n
  /\ UNCHANGED <<vendorLines, terminated, stream, reqSampleRate, pc, startTime, returned>>
  /\ UNCHANGED audioVars
  /\ UNCHANGED appVars
  /\ UNCHANGED pair
  /\ UNCHANGED serverVars

\* lines 74-75 and 104-113: reader.read() returns done; assemble and return
Finish ==
  /\ pc = "reading"
  /\ pos = Len(stream)
  /\ \E t \in ClockNext :
       /\ returned' = streamResult(req, reqSampleRate, startTime, t)
       /\ now' = t
  /\ pc' = "done"
  /\ UNCHANGED <<vendorLines, terminated, stream, reqSampleRate, pos, req, startTime>>
  /\ UNCHANGED audioVars
  /\ UNCHANGED appVars
  /\ UNCHANGED pair
  /\ UNCHANGED serverVars

(***************************************************************************)
(* The vendor client (tts.ts:130-189) and config.ts                        *)
(***************************************************************************)
\* a clock tick is half a millisecond
TicksPerMs == 2

NoError == [name |-> "", message |-> ""]

ErrNoApiKey ==
  [name |-> "Error",
   message |-> "INWORLD_API_KEY is not set. Please create a .env file with INWORLD_API_KEY=<your-base64-credentials>"]

ErrStatus(status, errorBody) ==
  [name |-> "Error",
   message |-> "Inworld API returned " \o ToString(status) \o ": " \o errorBody]

ErrNullBody == [name |-> "Error", message |-> "Response body is null"]

\* what reader.read() rejects with when the transport is aborted
ErrAbort == [name |-> "AbortError", message |-> "This operation was aborted"]

\* Buffer.from(undefined, 'base64')
ErrBufferFrom ==
  [name |-> "TypeError", message |-> "The first argument must be of type string"]

\* writeUInt32LE out of range
ErrRange == [name |-> "RangeError", message |-> "The value of \"value\" is out of range"]

ErrLlm == [name |-> "Error", message |-> "Connection error."]

ErrUri == [name |-> "URIError", message |-> "URI malformed"]

DefaultVoiceId ==
  JStr(<<100, 101, 102, 97, 117, 108, 116, 45, 120, 110, 113, 121, 54, 118, 50,
         104, 122, 106, 109, 115, 113, 122, 118, 104, 112, 50, 49, 122, 118, 103,
         95, 95, 107, 101, 110, 110, 121, 115, 95, 118, 111, 105, 99, 101>>)

DefaultModelId ==
  JStr(<<105, 110, 119, 111, 114, 108, 100, 45, 116, 116, 115, 45, 49, 46, 53,
         45, 109, 97, 120>>)

\* config.ts:16-23
assertApiKey(cfg) ==
  IF ~Truthy(cfg.inworldApiKey)
  THEN [threw |-> TRUE, error |-> ErrNoApiKey, key |-> << >>]
  ELSE [threw |-> FALSE, error |-> NoError, key |-> cfg.inworldApiKey.s]

\* mutant: the key is read without the check
getAuthHeaders_NoAssert(cfg) ==
  [threw |-> FALSE, error |-> NoError,
   authorization |-> <<66, 97, 115, 105, 99, 32>> \o cfg.inworldApiKey.s]

\* tts.ts:135-141; Authorization: `Basic ${apiKey}`
getAuthHeaders(cfg) ==
  LET apiKey == assertApiKey(cfg)
  IN  [threw |-> apiKey.threw, error |-> apiKey.error,
       authorization |-> <<66, 97, 115, 105, 99, 32>> \o apiKey.key]

\* response.ok
ResponseOk(status) == status >= 200 /\ status <= 299

FetchCall(endpoint, auth, body) ==
  [url |-> endpoint, authorization |-> auth.authorization, body |-> body]

\* tts.ts:146-161; up.voiceJson is what response.json() resolves to
post(cfg, up, endpoint, body) ==
  \* the headers are computed while the arguments of fetch are evaluated
  LET auth == getAuthHeaders(cfg)
  IN  IF auth.threw
      THEN [threw |-> TRUE, error |-> auth.error, calls |-> << >>, logs |-> << >>,
            json |-> JUndefined]
      ELSE IF ~ResponseOk(up.status)
      THEN [threw |-> TRUE, error |-> ErrStatus(up.status, up.errorBody),
            calls |-> <<FetchCall(endpoint, auth, body)>>,
            logs |-> <<"API Error [" \o ToString(up.status) \o "]: " \o up.errorBody>>,
            json |-> JUndefined]
      ELSE [threw |-> FALSE, error |-> NoError,
            calls |-> <<FetchCall(endpoint, auth, body)>>, logs |-> << >>,
            json |-> up.voiceJson]

\* mutant: the status of the response is not looked at
postStream_IgnoresStatus(cfg, up, endpoint, body) ==
  LET auth == getAuthHeaders(cfg)
  IN  IF auth.threw
      THEN [threw |-> TRUE, error |-> auth.error, calls |-> << >>, logs |-> << >>]
      ELSE [threw |-> FALSE, error |-> NoError,
            calls |-> <<FetchCall(endpoint, auth, body)>>, logs |-> << >>]

\* tts.ts:167-189
postStream(cfg, up, endpoint, body) ==
  LET auth == getAuthHeaders(cfg)
  IN  IF auth.threw
      THEN [threw |-> TRUE, error |-> auth.error, calls |-> << >>, logs |-> << >>]
      ELSE IF ~ResponseOk(up.status)
      THEN [threw |-> TRUE, error |-> ErrStatus(up.status, up.errorBody),
            calls |-> <<FetchCall(endpoint, auth, body)>>,
            logs |-> <<"API Error [" \o ToString(up.status) \o "]: " \o up.errorBody>>]
      ELSE IF ~up.hasBody
      THEN [threw |-> TRUE, error |-> ErrNullBody,
            calls |-> <<FetchCall(endpoint, auth, body)>>, logs |-> << >>]
      ELSE [threw |-> FALSE, error |-> NoError,
            calls |-> <<FetchCall(endpoint, auth, body)>>, logs |-> << >>]

\* the body of a vendor request; rate is Null for the non-streaming call
VendorRequest(text, voiceId, modelId, encoding, rate) ==
  [text |-> text, voiceId |-> voiceId, modelId |-> modelId,
   audio_encoding |-> encoding, sample_rate_hertz |-> rate]

\* tts.ts:21-29
generateSpeech(cfg, up, text, voiceId, modelId) ==
  LET response == post(cfg, up, "/voice",
                       VendorRequest(text, voiceId, modelId, "", Null))
      audio == decodeBase64(GetProp(response.json, KeyAudioContent))
  IN  IF response.threw
      THEN [threw |-> TRUE, error |-> response.error, calls |-> response.calls,
            logs |-> response.logs, buf |-> << >>]
      ELSE IF audio.threw
      THEN [threw |-> TRUE, error |-> ErrBufferFrom, calls |-> response.calls,
            logs |-> response.logs, buf |-> << >>]
      ELSE [threw |-> FALSE, error |-> NoError, calls |-> response.calls,
            logs |-> response.logs, buf |-> audio.buf]

(***************************************************************************)
(* server.ts: what the handlers render                                     *)
(***************************************************************************)
RECURSIVE Digits(_)
Digits(n) == IF n < 10 THEN <<48 + n>> ELSE Digits(n \div 10) \o <<48 + (n % 10)>>

\* (ticks / TicksPerMs).toFixed(0) for a duration that is not negative: the
\* nearest integer, the larger one of two equally near
toFixed0(ticks) == Digits((2 * ticks + TicksPerMs) \div (2 * TicksPerMs))

HexDigit(v) == IF v < 10 THEN 48 + v ELSE 55 + v

PercentByte(b) == <<37, HexDigit(b \div 16), HexDigit(b % 16)>>

\* A-Z a-z 0-9 - _ . ! ~ * ' ( )
UriUnreserved ==
  (65..90) \cup (97..122) \cup (48..57) \cup {45, 95, 46, 33, 126, 42, 39, 40, 41}

\* the UTF-8 bytes of a code unit outside the surrogate range
Utf8Encode(c) ==
  IF c < 128 THEN <<c>>
  ELSE IF c < 2048 THEN <<192 + (c \div 64), 128 + (c % 64)>>
  ELSE <<224 + (c \div 4096), 128 + ((c \div 64) % 64), 128 + (c % 64)>>

RECURSIVE PercentAll(_)
PercentAll(bytes) ==
  IF bytes = << >> THEN << >>
  ELSE PercentByte(Head(bytes)) \o PercentAll(Tail(bytes))

IsSurrogate(c) == c >= 55296 /\ c <= 57343

\* encodeURIComponent on strings without surrogate pairs; a lone surrogate
\* is a URIError
RECURSIVE encodeURIComponent(_)
encodeURIComponent(str) ==
  IF str = << >> THEN [threw |-> FALSE, out |-> << >>]
  ELSE LET c == Head(str)
           rest == encodeURIComponent(Tail(str))
       IN  IF IsSurrogate(c) \/ rest.threw THEN [threw |-> TRUE, out |-> << >>]
           ELSE [threw |-> FALSE,
                 out |-> (IF c \in UriUnreserved THEN <<c>>
                          ELSE PercentAll(Utf8Encode(c))) \o rest.out]

\* a || b
OrElse(a, b) == IF Truthy(a) THEN a ELSE b

\* 'I could not generate a response.'
FallbackResponse ==
  JStr(<<73, 32, 99, 111, 117, 108, 100, 32, 110, 111, 116, 32, 103, 101, 110,
         101, 114, 97, 116, 101, 32, 97, 32, 114, 101, 115, 112, 111, 110, 115,
         101, 46>>)

NoHeader == << >>

\* mutant: the error is reported with status 200
JsonError_Status200(status, message) ==
  [status |-> 200, contentType |-> "application/json", xTtfbMs |-> NoHeader,
   xTotalMs |-> NoHeader, xLlmMs |-> NoHeader, xAiResponse |-> NoHeader,
   audio |-> << >>, error |-> message]

\* res.status(status).json({ error: message })
JsonError(status, message) ==
  [status |-> status, contentType |-> "application/json", xTtfbMs |-> NoHeader,
   xTotalMs |-> NoHeader, xLlmMs |-> NoHeader, xAiResponse |-> NoHeader,
   audio |-> << >>, error |-> message]

\* mutant: the two timing headers carry each other's value
AudioReply_HeadersSwapped(contentType, ttfb, total, llm, ai, audioBuffer) ==
  [status |-> 200, contentType |-> contentType, xTtfbMs |-> total,
   xTotalMs |-> ttfb, xLlmMs |-> llm, xAiResponse |-> ai,
   audio |-> audioBuffer, error |-> ""]

\* res.setHeader(...); res.send(audioBuffer)
AudioReply(contentType, ttfb, total, llm, ai, audioBuffer) ==
  [status |-> 200, contentType |-> contentType, xTtfbMs |-> ttfb,
   xTotalMs |-> total, xLlmMs |-> llm, xAiResponse |-> ai,
   audio |-> audioBuffer, error |-> ""]

(***************************************************************************)
(* One HTTP request to the server.                                         *)
(***************************************************************************)
\* "Hi", "Ashley", "m1", "Why"
TextHi == JStr(<<72, 105>>)
VoiceAshley == JStr(<<65, 115, 104, 108, 101, 121>>)
ModelOther == JStr(<<109, 49>>)
QuestionWhy == JStr(<<87, 104, 121>>)
CallerRate == 22050

TtsBodies ==
  { [text |-> t, voice |-> v, model |-> m, sampleRate |-> r, question |-> JUndefined] :
      t \in {JUndefined, JStr(<< >>), TextHi}, v \in {JUndefined, VoiceAshley},
      m \in {JUndefined, ModelOther}, r \in {JUndefined, JNum(CallerRate)} }

AskBodies ==
  { [text |-> JUndefined, voice |-> JUndefined, model |-> JUndefined,
     sampleRate |-> JUndefined, question |-> q] :
      q \in {JUndefined, JStr(<< >>), QuestionWhy} }

HttpRequests ==
  { [endpoint |-> e, body |-> b] : e \in {"/api/tts", "/api/tts/stream"}, b \in TtsBodies }
    \cup { [endpoint |-> "/api/ask", body |-> b] : b \in AskBodies }

\* INWORLD_API_KEY unset, empty, set ("key"); OPENAI_API_KEY unset, empty,
\* set ("sk")
Configs ==
  { [inworldApiKey |-> k, openaiApiKey |-> o] :
      k \in {JUndefined, JStr(<< >>), JStr(<<107, 101, 121>>)},
      o \in {JUndefined, JStr(<< >>), JStr(<<115, 107>>)} }

\* { "audioContent": base64 } and {}
VoiceJsons ==
  { JObj(<<KeyAudioContent>>, <<JStr(Base64Encode(PayloadPcm))>>), JObj(<< >>, << >>) }

\* null, "Hi!", "a e-acute"
LlmContents == { JNull, JStr(<<72, 105, 33>>), JStr(<<97, 32, 233>>) }

\* the bodies the vendor streams to the server
ServerStreams == { << >>, <<"pcm">>, <<"garbage", "pcm">> }

NewHandler ==
  [pc |-> "received", thrown |-> NoError, text |-> JUndefined,
   voiceId |-> JUndefined, modelId |-> JUndefined, askStart |-> 0,
   llmTime |-> 0, aiResponse |-> JUndefined]

\* the state in which the server handles no request
ServerIdle ==
  /\ httpReq = [endpoint |-> "", body |-> CHOOSE b \in AskBodies : b.question = JUndefined]
  /\ config = [inworldApiKey |-> JUndefined, openaiApiKey |-> JUndefined]
  /\ upstream = [status |-> 200, errorBody |-> "", hasBody |-> TRUE,
                 voiceJson |-> JUndefined, llmFails |-> FALSE, llmContent |-> JNull]
  /\ handler = [NewHandler EXCEPT !.pc = "idle"]
  /\ fetched = << >>
  /\ llmCalls = 0
  /\ responses = << >>
  /\ consoleError = << >>

\* a request has arrived; what does not matter to its endpoint is held fixed
ServerInit ==
  /\ httpReq \in HttpRequests
  /\ config \in Configs
  /\ (httpReq.endpoint # "/api/ask" => config.openaiApiKey = JUndefined)
  /\ \E st \in {200, 401}, hb \in BOOLEAN, vj \in VoiceJsons,
        lf \in BOOLEAN, lc \in LlmContents :
       /\ upstream = [status |-> st,
                      errorBody |-> IF st = 200 THEN "" ELSE "unauthorized",
                      hasBody |-> hb, voiceJson |-> vj, llmFails |-> lf,
                      llmContent |-> lc]
       /\ (httpReq.endpoint # "/api/tts" => vj = JObj(<< >>, << >>))
       /\ (httpReq.endpoint = "/api/tts" => hb)
       /\ (httpReq.endpoint # "/api/ask" => ~lf /\ lc = JNull)
       /\ (lf => lc = JNull)
  /\ vendorLines \in ServerStreams
  /\ (httpReq.endpoint = "/api/tts" => vendorLines = << >>)
  /\ terminated = TRUE
  /\ stream = StreamBytes(vendorLines, terminated)
  /\ reqSampleRate = DefaultSampleRate
  /\ pc = "idle"
  /\ pos = 0
  /\ req = NewRequestState
  /\ startTime = 0
  /\ now = 1
  /\ returned = NoResult
  /\ handler = NewHandler
  /\ fetched = << >>
  /\ llmCalls = 0
  /\ responses = << >>
  /\ consoleError = << >>

\* no reply: the request goes on
NoReply == [status |-> 0, message |-> ""]

\* mutant: only a missing field is rejected, an empty one goes on
earlyReply_MissingOnly(request, cfg) ==
  IF request.endpoint = "/api/ask"
  THEN IF request.body.question = JUndefined
       THEN [status |-> 400, message |-> "question is required"]
       ELSE IF cfg.openaiApiKey = JUndefined
       THEN [status |-> 500, message |-> "OPENAI_API_KEY not configured"]
       ELSE NoReply
  ELSE IF request.body.text = JUndefined
       THEN [status |-> 400, message |-> "text is required"]
       ELSE NoReply

\* server.ts:54-57, 83-86, 121-129: the reply that ends the handler before
\* it calls anything, NoReply when the body and the configuration pass
earlyReply(request, cfg) ==
  IF request.endpoint = "/api/ask"
  THEN IF ~Truthy(request.body.question)
       THEN [status |-> 400, message |-> "question is required"]
       ELSE IF ~Truthy(cfg.openaiApiKey)
       THEN [status |-> 500, message |-> "OPENAI_API_KEY not configured"]
       ELSE NoReply
  ELSE IF ~Truthy(request.body.text)
       THEN [status |-> 400, message |-> "text is required"]
       ELSE NoReply

\* server.ts:52-57, 81-86, 119-133: the body is checked
Validate ==
  /\ handler.pc = "received"
  /\ LET reply == earlyReply(httpReq, config)
     IN  IF reply # NoReply
         THEN /\ responses' = Append(responses, JsonError(reply.status, reply.message))
              /\ handler' = [handler EXCEPT !.pc = "sent"]
         ELSE /\ responses' = responses
              /\ handler' =
                   IF httpReq.endpoint = "/api/ask"
                   \* const startTime = performance.now()
                   THEN [handler EXCEPT !.pc = "llm", !.askStart = now]
                   ELSE [handler EXCEPT
                           !.pc = "call",
                           !.text = httpReq.body.text,
                           !.voiceId = OrElse(httpReq.body.voice, DefaultVoiceId),
                           !.modelId = OrElse(httpReq.body.model, DefaultModelId)]
  /\ UNCHANGED <<httpReq, config, upstream, fetched, llmCalls, consoleError>>
  /\ UNCHANGED streamVars
  /\ UNCHANGED audioVars
  /\ UNCHANGED appVars
  /\ UNCHANGED pair

\* server.ts:140-150: the chat completion, which takes at least one tick
AskLLM ==
  /\ handler.pc = "llm"
  /\ llmCalls' = llmCalls + 1
  /\ IF upstream.llmFails
     THEN /\ handler' = [handler EXCEPT !.pc = "catch", !.thrown = ErrLlm]
          /\ now' = now
     ELSE \E t \in (now + 1)..(MaxClock - 1) :
            /\ handler' = [handler EXCEPT
                 !.pc = "call",
                 !.aiResponse = OrElse(upstream.llmContent, FallbackResponse),
                 !.text = OrElse(upstream.llmContent, FallbackResponse),
                 !.voiceId = DefaultVoiceId,
                 !.modelId = DefaultModelId,
                 !.llmTime = t - handler.askStart]
            /\ now' = t
  /\ UNCHANGED <<vendorLines, terminated, stream, reqSampleRate, pc, pos, req,
                 startTime, returned>>
  /\ UNCHANGED <<httpReq, config, upstream, fetched, responses, consoleError>>
  /\ UNCHANGED audioVars
  /\ UNCHANGED appVars
  /\ UNCHANGED pair

\* server.ts:61-72: generateSpeech and the reply of /api/tts
GenerateSpeech ==
  /\ handler.pc = "call"
  /\ httpReq.endpoint = "/api/tts"
  /\ LET audioBuffer == generateSpeech(config, upstream, handler.text,
                                       handler.voiceId, handler.modelId)
     IN  /\ fetched' = fetched \o audioBuffer.calls
         /\ consoleError' = consoleError \o audioBuffer.logs
         /\ IF audioBuffer.threw
            THEN /\ handler' = [handler EXCEPT !.pc = "catch", !.thrown = audioBuffer.error]
                 /\ responses' = responses
            ELSE /\ handler' = [handler EXCEPT !.pc = "sent"]
                 /\ responses' = Append(responses,
                      AudioReply("audio/mpeg", NoHeader, NoHeader, NoHeader,
                                 NoHeader, audioBuffer.buf))
  /\ UNCHANGED <<httpReq, config, upstream, llmCalls>>
  /\ UNCHANGED streamVars
  /\ UNCHANGED audioVars
  /\ UNCHANGED appVars
  /\ UNCHANGED pair

\* server.ts:90-94, 156-160: streamSpeech is called with three arguments,
\* so sampleRate takes its default (tts.ts:52)
CallStreamSpeech ==
  /\ handler.pc = "call"
  /\ httpReq.endpoint \in {"/api/tts/stream", "/api/ask"}
  /\ handler' = [handler EXCEPT !.pc = "await"]
  /\ reqSampleRate' = DefaultSampleRate
  /\ pc' = "start"
  /\ UNCHANGED <<vendorLines, terminated, stream, pos, req, startTime, now, returned>>
  /\ UNCHANGED <<httpReq, config, upstream, fetched, llmCalls, responses, consoleError>>
  /\ UNCHANGED audioVars
  /\ UNCHANGED appVars
  /\ UNCHANGED pair

\* tts.ts:54-71: the request is built, the start time taken and postStream
\* awaited; a fetch takes at least one tick
StartRequest ==
  /\ pc = "start"
  /\ handler.pc = "await"
  /\ startTime' = now
  /\ req' = NewRequestState
  /\ LET opened == postStream(config, upstream, "/voice:stream",
                     VendorRequest(handler.text, handler.voiceId, handler.modelId,
                                   "LINEAR16", reqSampleRate))
     IN  /\ fetched' = fetched \o opened.calls
         /\ consoleError' = consoleError \o opened.logs
         /\ now' = IF opened.calls = << >> THEN now ELSE now + 1
         /\ IF opened.threw
            THEN /\ pc' = "threw"
                 /\ handler' = [handler EXCEPT !.pc = "catch", !.thrown = opened.error]
            ELSE /\ pc' = "reading"
                 /\ handler' = handler
  /\ UNCHANGED <<vendorLines, terminated, stream, reqSampleRate, pos, returned>>
  /\ UNCHANGED <<httpReq, config, upstream, llmCalls, responses>>
  /\ UNCHANGED audioVars
  /\ UNCHANGED appVars
  /\ UNCHANGED pair

\* tts.ts:74: reader.read() rejects because the transport was aborted
ReadAbort ==
  /\ pc = "reading"
  /\ handler.pc = "await"
  /\ pc' = "threw"
  /\ handler' = [handler EXCEPT !.pc = "catch", !.thrown = ErrAbort]
  /\ UNCHANGED <<vendorLines, terminated, stream, reqSampleRate, pos, req,
                 startTime, now, returned>>
  /\ UNCHANGED <<httpReq, config, upstream, fetched, llmCalls, responses, consoleError>>
  /\ UNCHANGED audioVars
  /\ UNCHANGED appVars
  /\ UNCHANGED pair

\* server.ts:96-102: the reply of /api/tts/stream
RespondStream ==
  /\ pc = "done"
  /\ handler.pc = "await"
  /\ httpReq.endpoint = "/api/tts/stream"
  /\ IF returned.threw
     THEN /\ handler' = [handler EXCEPT !.pc = "catch", !.thrown = ErrRange]
          /\ responses' = responses
     ELSE /\ handler' = [handler EXCEPT !.pc = "sent"]
          /\ responses' = Append(responses,
               AudioReply("audio/wav", toFixed0(returned.timeToFirstChunk),
                          toFixed0(returned.totalTime), NoHeader, NoHeader,
                          returned.audioBuffer))
  /\ UNCHANGED <<httpReq, config, upstream, fetched, llmCalls, consoleError>>
  /\ UNCHANGED streamVars
  /\ UNCHANGED audioVars
  /\ UNCHANGED appVars
  /\ UNCHANGED pair

\* server.ts:161-170: the reply of /api/ask
RespondAsk ==
  /\ pc = "done"
  /\ handler.pc = "await"
  /\ httpReq.endpoint = "/api/ask"
  /\ \E t \in ClockNext :
       LET encoded == encodeURIComponent(handler.aiResponse.s)
       IN  /\ now' = t
           /\ IF returned.threw \/ encoded.threw
              THEN /\ handler' = [handler EXCEPT
                        !.pc = "catch",
                        !.thrown = IF returned.threw THEN ErrRange ELSE ErrUri]
                   /\ responses' = responses
              ELSE /\ handler' = [handler EXCEPT !.pc = "sent"]
                   /\ responses' = Append(responses,
                        AudioReply("audio/wav", toFixed0(returned.timeToFirstChunk),
                                   \* (performance.now() - startTime).toFixed(0)
                                   toFixed0(t - handler.askStart),
                                   toFixed0(handler.llmTime), encoded.out,
                                   returned.audioBuffer))
  /\ UNCHANGED <<vendorLines, terminated, stream, reqSampleRate, pc, pos, req,
                 startTime, returned>>
  /\ UNCHANGED <<httpReq, config, upstream, fetched, llmCalls, consoleError>>
  /\ UNCHANGED audioVars
  /\ UNCHANGED appVars
  /\ UNCHANGED pair

\* server.ts:36-44 after next(error) at lines 71, 104, 172
errorHandler ==
  /\ handler.pc = "catch"
  /\ consoleError' = Append(consoleError, "Server error: " \o handler.thrown.message)
  /\ responses' = Append(responses, JsonError(500, handler.thrown.message))
  /\ handler' = [handler EXCEPT !.pc = "sent"]
  /\ UNCHANGED <<httpReq, config, upstream, fetched, llmCalls>>
  /\ UNCHANGED streamVars
  /\ UNCHANGED audioVars
  /\ UNCHANGED appVars
  /\ UNCHANGED pair

(***************************************************************************)
(* Two streamSpeech calls in flight together: each call's locals           *)
(* (tts.ts:64-72) live in its own activation; performance.now() is the     *)
(* one clock of the process.                                               *)
(***************************************************************************)
Calls == {1, 2}

PairStreams == { <<"garbage">>, <<"pcm">>, <<"garbage", "pcm">> }

NewCall(kinds) ==
  [lines |-> kinds, body |-> StreamBytes(kinds, TRUE), pc |-> "start", pos |-> 0,
   locals |-> NewRequestState, startTime |-> 0, returned |-> NoResult]

PairIdle == pair = [i \in Calls |-> [NewCall(<< >>) EXCEPT !.pc = "idle"]]

PairInit == pair \in [Calls -> { NewCall(kinds) : kinds \in PairStreams }]

\* mutant: buffer is one variable of the module, which call 1 owns
readerLocals_SharedBuffer(p, i) ==
  [p[i].locals EXCEPT !.buffer = p[1].locals.buffer]

\* the variables the reader loop of call i works on
readerLocals(p, i) == p[i].locals

\* lines 64-71 of call i
PairStart(i) ==
  /\ pair[i].pc = "start"
  /\ pair' = [pair EXCEPT ![i].pc = "reading", ![i].startTime = now,
                          ![i].locals = NewRequestState]
  /\ now' = now + 1
  /\ UNCHANGED <<vendorLines, terminated, stream, reqSampleRate, pc, pos, req,
                 startTime, returned>>
  /\ UNCHANGED audioVars
  /\ UNCHANGED appVars
  /\ UNCHANGED serverVars

\* lines 74-101 of call i
PairRead(i) ==
  /\ pair[i].pc = "reading"
  /\ pair[i].pos < Len(pair[i].body)
  /\ \E n \in 1..MaxRead :
       /\ pair[i].pos + n <= Len(pair[i].body)
       /\ LET value == SubSeq(pair[i].body, pair[i].pos + 1, pair[i].pos + n)
              before == readerLocals(pair, i)
              after == processRead(before, value, now)
          IN  IF after.firstChunkTime = before.firstChunkTime
              THEN /\ pair' = [pair EXCEPT ![i].locals = after, ![i].pos = @ + n]
                   /\ now' = now
              ELSE \E t \in ClockNext :
                     /\ pair' = [pair EXCEPT
                          ![i].locals = [after EXCEPT !.firstChunkTime = t],
                          ![i].pos = @ + n]
                     /\ now' = t
  /\ UNCHANGED <<vendorLines, terminated, stream, reqSampleRate, pc, pos, req,
                 startTime, returned>>
  /\ UNCHANGED audioVars
  /\ UNCHANGED appVars
  /\ UNCHANGED serverVars

\* lines 74-75 and 104-113 of call i
PairFinish(i) ==
  /\ pair[i].pc = "reading"
  /\ pair[i].pos = Len(pair[i].body)
  /\ \E t \in ClockNext :
       /\ pair' = [pair EXCEPT
            ![i].pc = "done",
            ![i].returned = streamResult(readerLocals(pair, i), DefaultSampleRate,
                                         pair[i].startTime, t)]
       /\ now' = t
  /\ UNCHANGED <<vendorLines, terminated, stream, reqSampleRate, pc, pos, req,
                 startTime, returned>>
  /\ UNCHANGED audioVars
  /\ UNCHANGED appVars
  /\ UNCHANGED serverVars

(***************************************************************************)
(* course-app/src/hooks: useAskTutor and useAIExplain.  One mounted hook,  *)
(* the requests it starts and the audio element and abort controller it    *)
(* keeps in refs.  An awaited promise settles in a step of its own; the     *)
(* code after the await runs in that step.                                  *)
(***************************************************************************)
\* requests one mounted hook starts
MaxAsks == 2

Asks == 1..MaxAsks

HookKinds == {"useAskTutor", "useAIExplain"}

\* a string state field: null, or a text
NoMessage == [set |-> FALSE, text |-> ""]
Message(text) == [set |-> TRUE, text |-> text]

\* the aiResponse field: null, or the decoded text
NoAnswer == [set |-> FALSE, text |-> << >>]

\* parseFloat on the digit strings that toFixed(0) renders
RECURSIVE parseFloat(_)
parseFloat(str) ==
  IF str = << >> THEN 0
  ELSE 10 * parseFloat(SubSeq(str, 1, Len(str) - 1)) + (str[Len(str)] - 48)

HexValue(c) == IF c <= 57 THEN c - 48 ELSE c - 55

\* the bytes that a string written by encodeURIComponent stands for
RECURSIVE PercentDecode(_)
PercentDecode(str) ==
  IF str = << >> THEN << >>
  ELSE IF Head(str) = 37
  THEN <<16 * HexValue(str[2]) + HexValue(str[3])>>
         \o PercentDecode(SubSeq(str, 4, Len(str)))
  ELSE <<Head(str)>> \o PercentDecode(Tail(str))

\* decodeURIComponent on what encodeURIComponent wrote
decodeURIComponent(str) == decode(NewDecoder, PercentDecode(str)).out

\* "12", "3", "15" and encodeURIComponent("a e-acute")
HeaderLlmMs == <<49, 50>>
HeaderTtfbMs == <<51>>
HeaderTotalMs == <<49, 53>>
HeaderAiResponse == <<97, 37, 50, 48, 37, 67, 51, 37, 65, 57>>

\* what /api/ask may answer: 200 with or without the X- headers and a body
\* the audio element can or cannot play; 500 with { error } or with a body
\* that is no JSON
HookReplies ==
  { [ok |-> TRUE, status |-> 200, headers |-> h, playable |-> p, json |-> NoMessage] :
      h \in BOOLEAN, p \in BOOLEAN }
    \cup { [ok |-> FALSE, status |-> 500, headers |-> FALSE, playable |-> FALSE,
            json |-> j] : j \in {NoMessage, Message("LLM down")} }

NoReplyYet ==
  [ok |-> FALSE, status |-> 0, headers |-> FALSE, playable |-> FALSE, json |-> NoMessage]

\* useAskTutor.ts:21-29, useAIExplain.ts:19-25 (which has no totalLatency
\* and no aiResponse: they stay null there)
NewHookState ==
  [isLoading |-> FALSE, isPlaying |-> FALSE, error |-> NoMessage,
   llmLatency |-> Null, ttsLatency |-> Null, totalLatency |-> Null,
   aiResponse |-> NoAnswer]

\* audioRef.current: src and owner are the request whose blob is loaded and
\* whose onended/onerror are installed
NoAudio == [exists |-> FALSE, src |-> 0, owner |-> 0, paused |-> TRUE, media |-> "empty"]

\* one call of ask()/explain(): where it waits, what the server answered, and
\* whether the promise it waits for was rejected with an AbortError
NewAsk == [pc |-> "idle", reply |-> NoReplyYet, aborted |-> FALSE]

\* abortRef is the request of the current controller (0: null); signalled
\* are the requests whose controller was aborted; actor is the request whose
\* code ran in the last step (0: the user's stop())
NewHook(kind) ==
  [kind |-> kind, state |-> NewHookState, audio |-> NoAudio, abortRef |-> 0,
   signalled |-> {}, calls |-> [i \in Asks |-> NewAsk], actor |-> 0]

HookIdle == hook = NewHook("useAskTutor")

HookInit == hook \in { NewHook(kind) : kind \in HookKinds }

\* useAskTutor.ts:34-43, useAIExplain.ts:30-39.  pause() rejects a pending
\* play() with an AbortError; abort() rejects the pending fetch(), json() or
\* blob() of the current controller's request
stop(h) ==
  LET calls == [i \in Asks |->
                 IF \/ h.audio.exists /\ ~h.audio.paused /\ h.calls[i].pc = "play"
                    \/ h.abortRef = i /\ h.calls[i].pc \in {"fetch", "json", "blob"}
                 THEN [h.calls[i] EXCEPT !.aborted = TRUE]
                 ELSE h.calls[i]]
  IN  [h EXCEPT !.audio.paused = TRUE,
                !.calls = calls,
                !.signalled = IF h.abortRef # 0 THEN @ \cup {h.abortRef} ELSE @,
                !.state.isPlaying = FALSE,
                !.state.isLoading = FALSE]

\* the user calls stop()
HookStop ==
  /\ hook' = [stop(hook) EXCEPT !.actor = 0]
  /\ hook' # hook
  /\ UNCHANGED <<tutor, script, player>>
  /\ UNCHANGED <<audioVars, streamVars, serverVars, pair>>

\* useAskTutor.ts:45-67, useAIExplain.ts:41-84: ask()/explain() up to the
\* await of fetch
HookAsk ==
  \E i \in Asks :
    /\ hook.calls[i].pc = "idle"
    /\ \A j \in 1..(i - 1) : hook.calls[j].pc # "idle"
    /\ hook' = [stop(hook) EXCEPT
                  !.state = [NewHookState EXCEPT !.isLoading = TRUE],
                  !.abortRef = i,
                  !.calls[i].pc = "fetch",
                  !.actor = i]
    /\ UNCHANGED <<tutor, script, player>>
    /\ UNCHANGED <<audioVars, streamVars, serverVars, pair>>

\* the catch block: an AbortError returns, any other error is shown
\* (useAskTutor.ts:110-119, useAIExplain.ts:122-131)
catch(h, i, name, message) ==
  IF name = "AbortError"
  THEN [h EXCEPT !.calls[i].pc = "cancelled", !.actor = i]
  ELSE [h EXCEPT !.calls[i].pc = "failed", !.actor = i,
                 !.state.isLoading = FALSE,
                 !.state.error = Message(message)]

\* useAskTutor.ts:75-87, useAIExplain.ts:91-99: the headers go into the state
withLatency(h, reply) ==
  [h EXCEPT
     !.state.llmLatency = IF reply.headers THEN parseFloat(HeaderLlmMs) ELSE Null,
     !.state.ttsLatency = IF reply.headers THEN parseFloat(HeaderTtfbMs) ELSE Null,
     !.state.totalLatency =
        IF h.kind = "useAskTutor" /\ reply.headers THEN parseFloat(HeaderTotalMs)
        ELSE IF h.kind = "useAskTutor" THEN Null ELSE @,
     !.state.aiResponse =
        IF h.kind = "useAskTutor" /\ reply.headers
        THEN [set |-> TRUE, text |-> decodeURIComponent(HeaderAiResponse)]
        ELSE IF h.kind = "useAskTutor" THEN NoAnswer ELSE @,
     !.state.isLoading = FALSE]

\* useAskTutor.ts:62-90, useAIExplain.ts:76-102: fetch settles and the code
\* runs to the next await
HookFetchSettles(i) ==
  /\ hook.calls[i].pc = "fetch"
  /\ IF hook.calls[i].aborted
     THEN hook' = catch(hook, i, "AbortError", "The user aborted a request.")
     ELSE \/ hook' = catch(hook, i, "TypeError", "Failed to fetch")
          \/ \E reply \in HookReplies :
               hook' =
                 IF reply.ok
                 THEN [withLatency(hook, reply) EXCEPT
                         !.calls[i].pc = "blob", !.calls[i].reply = reply, !.actor = i]
                 ELSE IF hook.kind = "useAskTutor"
                 THEN [hook EXCEPT
                         !.calls[i].pc = "json", !.calls[i].reply = reply, !.actor = i]
                 ELSE catch([hook EXCEPT !.calls[i].reply = reply], i, "Error",
                            "API error: " \o ToString(reply.status))
  /\ UNCHANGED <<tutor, script, player>>
  /\ UNCHANGED <<audioVars, streamVars, serverVars, pair>>

\* useAskTutor.ts:70-71: `await response.json().catch(() => ({}))` settles,
\* with {} when json() was rejected, whatever the reason, and the Error is
\* thrown
HookJsonSettles(i) ==
  /\ hook.calls[i].pc = "json"
  /\ LET reply == hook.calls[i].reply
         errorData == IF hook.calls[i].aborted THEN NoMessage ELSE reply.json
         message == IF errorData.set /\ errorData.text # "" THEN errorData.text
                    ELSE "Error: " \o ToString(reply.status)
     IN  hook' = catch(hook, i, "Error", message)
  /\ UNCHANGED <<tutor, script, player>>
  /\ UNCHANGED <<audioVars, streamVars, serverVars, pair>>

\* useAskTutor.ts:90-107, useAIExplain.ts:102-119: blob() settles; the audio
\* element gets the blob and the handlers of this request, and play() is
\* called
HookBlobSettles(i) ==
  /\ hook.calls[i].pc = "blob"
  /\ IF hook.calls[i].aborted
     THEN hook' = catch(hook, i, "AbortError", "The user aborted a request.")
     ELSE \/ hook' = catch(hook, i, "TypeError", "network error")
          \/ hook' = [hook EXCEPT
                        !.audio = [exists |-> TRUE, src |-> i, owner |-> i,
                                   paused |-> FALSE, media |-> "loading"],
                        !.calls[i].pc = "play",
                        !.actor = i]
  /\ UNCHANGED <<tutor, script, player>>
  /\ UNCHANGED <<audioVars, streamVars, serverVars, pair>>

\* useAskTutor.ts:107-108, useAIExplain.ts:119-120: play() settles
HookPlaySettles(i) ==
  /\ hook.calls[i].pc = "play"
  /\ IF hook.calls[i].aborted
     THEN hook' = catch(hook, i, "AbortError",
                        "The play() request was interrupted by a call to pause().")
     ELSE IF hook.audio.media = "failed"
     THEN hook' = catch(hook, i, "NotSupportedError",
                        "The element has no supported sources.")
     ELSE \/ hook' = catch([hook EXCEPT !.audio.paused = TRUE], i, "NotAllowedError",
                           "play() failed because the user didn't interact with the document first.")
          \/ /\ hook.calls[i].reply.playable
             /\ hook' = [hook EXCEPT !.audio.media = "ready",
                                     !.calls[i].pc = "playing",
                                     !.state.isPlaying = TRUE,
                                     !.actor = i]
  /\ UNCHANGED <<tutor, script, player>>
  /\ UNCHANGED <<audioVars, streamVars, serverVars, pair>>

\* useAskTutor.ts:98-101, useAIExplain.ts:110-113: onended
HookEnded ==
  /\ hook.audio.exists
  /\ ~hook.audio.paused
  /\ hook.audio.media = "ready"
  /\ hook' = [hook EXCEPT !.audio.media = "ended",
                          !.state.isPlaying = FALSE,
                          !.actor = hook.audio.owner]
  /\ UNCHANGED <<tutor, script, player>>
  /\ UNCHANGED <<audioVars, streamVars, serverVars, pair>>

\* useAskTutor.ts:102-105, useAIExplain.ts:114-117: onerror, fired when the
\* element finds that it cannot play the blob, paused or not
HookMediaError ==
  /\ hook.audio.exists
  /\ hook.audio.media = "loading"
  /\ ~hook.calls[hook.audio.src].reply.playable
  /\ hook' = [hook EXCEPT !.audio.media = "failed",
                          !.state.isPlaying = FALSE,
                          !.state.error = Message("Playback failed"),
                          !.actor = hook.audio.owner]
  /\ UNCHANGED <<tutor, script, player>>
  /\ UNCHANGED <<audioVars, streamVars, serverVars, pair>>

(***************************************************************************)
(* The AskTutor component: the question field, the microphone button and   *)
(* the SpeechRecognition sessions it starts.  A handler sees the state of   *)
(* the render in which it was created.                                      *)
(***************************************************************************)
\* recognition sessions one mounted component starts
MaxSessions == 2

Sessions == 1..MaxSessions

\* "" and "Hi": what the user may type
TypedTexts == { << >>, <<72, 105>> }

\* "Why" and "Hi": what the recogniser may hear
SpokenTexts == { <<87, 104, 121>>, <<72, 105>> }

\* closure: `question` as startListening saw it; heard: onstart has fired;
\* transcript: what onresult last put in the field; submitted: what onend
\* passed to askQuestion
NewSession ==
  [phase |-> "none", closure |-> << >>, heard |-> FALSE,
   transcript |-> NoAnswer, submitted |-> NoAnswer]

\* the useState and useRef values of the component; request is the
\* /api/ask call in flight, asked the text askQuestion last went on with
NewTutor ==
  [question |-> << >>, isLoading |-> FALSE, isPlaying |-> FALSE,
   isListening |-> FALSE, error |-> NoMessage, recognitionRef |-> 0,
   sessions |-> [i \in Sessions |-> NewSession], asked |-> NoAnswer]

TutorIdle == tutor = NewTutor

TutorInit == tutor = NewTutor

\* askQuestion up to the await of fetch: nothing for a blank text, else
\* stopAudio() and the loading state
askQuestion(t, text) ==
  IF trimIsEmpty(text) THEN t
  ELSE [t EXCEPT !.isPlaying = FALSE, !.isLoading = TRUE, !.error = NoMessage,
                 !.asked = [set |-> TRUE, text |-> text]]

\* startListening: the session before is stopped, a new one started whose
\* handlers close over the question of this render
startListening(t, i) ==
  [t EXCEPT
     !.sessions = [j \in Sessions |->
        IF j = i
        THEN [NewSession EXCEPT !.phase = "starting", !.closure = t.question]
        ELSE IF j = t.recognitionRef /\ t.sessions[j].phase \in {"starting", "listening"}
        THEN [t.sessions[j] EXCEPT !.phase = "stopping"]
        ELSE t.sessions[j]],
     !.recognitionRef = i]

\* stopListening
stopListening(t) ==
  IF t.recognitionRef # 0 /\ t.isListening
       /\ t.sessions[t.recognitionRef].phase \in {"starting", "listening"}
  THEN [t EXCEPT !.sessions[t.recognitionRef].phase = "stopping"]
  ELSE t

\* onChange of the input, which is disabled while loading, playing or
\* listening
TutorType ==
  /\ ~tutor.isLoading /\ ~tutor.isPlaying /\ ~tutor.isListening
  /\ \E text \in TypedTexts :
       /\ text # tutor.question
       /\ tutor' = [tutor EXCEPT !.question = text]
  /\ UNCHANGED <<hook, script, player>>
  /\ UNCHANGED <<audioVars, streamVars, serverVars, pair>>

\* handleSubmit up to the await inside askQuestion
TutorSubmit ==
  /\ ~tutor.isPlaying /\ ~tutor.isListening
  /\ ~trimIsEmpty(tutor.question) /\ ~tutor.isLoading
  /\ tutor' = askQuestion(tutor, tutor.question)
  /\ UNCHANGED <<hook, script, player>>
  /\ UNCHANGED <<audioVars, streamVars, serverVars, pair>>

\* the request of askQuestion settles: the answer plays, or an error shows;
\* handleSubmit then clears the field
TutorAskSettles ==
  /\ tutor.isLoading
  /\ \/ tutor' = [tutor EXCEPT !.isLoading = FALSE, !.isPlaying = TRUE,
                               !.question = << >>]
     \/ tutor' = [tutor EXCEPT !.isLoading = FALSE,
                               !.error = Message("Request failed: 500"),
                               !.question = << >>]
  /\ UNCHANGED <<hook, script, player>>
  /\ UNCHANGED <<audioVars, streamVars, serverVars, pair>>

\* stopAudio from the stop button, or onended of the audio element
TutorStopAudio ==
  /\ tutor.isPlaying
  /\ tutor' = [tutor EXCEPT !.isPlaying = FALSE, !.isLoading = FALSE]
  /\ UNCHANGED <<hook, script, player>>
  /\ UNCHANGED <<audioVars, streamVars, serverVars, pair>>

\* handleMicClick; the button is disabled while loading or playing
TutorMicClick ==
  /\ ~tutor.isLoading /\ ~tutor.isPlaying
  /\ IF tutor.isListening
     THEN /\ tutor' = stopListening(tutor)
          /\ tutor' # tutor
     ELSE \E i \in Sessions :
            /\ tutor.sessions[i].phase = "none"
            /\ \A j \in 1..(i - 1) : tutor.sessions[j].phase # "none"
            /\ tutor' = startListening(tutor, i)
  /\ UNCHANGED <<hook, script, player>>
  /\ UNCHANGED <<audioVars, streamVars, serverVars, pair>>

\* recognition.onstart
TutorOnStart(i) ==
  /\ tutor.sessions[i].phase = "starting"
  /\ tutor' = [tutor EXCEPT !.sessions[i].phase = "listening",
                            !.sessions[i].heard = TRUE,
                            !.isListening = TRUE,
                            !.question = << >>,
                            !.error = NoMessage]
  /\ UNCHANGED <<hook, script, player>>
  /\ UNCHANGED <<audioVars, streamVars, serverVars, pair>>

\* recognition.onresult: the transcript goes into the field
TutorOnResult(i) ==
  /\ tutor.sessions[i].phase \in {"listening", "stopping"}
  /\ tutor.sessions[i].heard
  /\ \E transcript \in SpokenTexts :
       /\ tutor.sessions[i].transcript # [set |-> TRUE, text |-> transcript]
       /\ tutor' = [tutor EXCEPT
            !.sessions[i].transcript = [set |-> TRUE, text |-> transcript],
            !.question = transcript]
  /\ UNCHANGED <<hook, script, player>>
  /\ UNCHANGED <<audioVars, streamVars, serverVars, pair>>

\* recognition.onerror; the end event follows
TutorOnError(i) ==
  /\ tutor.sessions[i].phase \in {"starting", "listening", "stopping"}
  /\ \E code \in {"no-speech", "network"} :
       tutor' = [tutor EXCEPT
         !.sessions[i].phase = "failed",
         !.isListening = FALSE,
         !.error = IF code # "no-speech"
                   THEN Message("Speech recognition error: " \o code) ELSE @]
  /\ UNCHANGED <<hook, script, player>>
  /\ UNCHANGED <<audioVars, streamVars, serverVars, pair>>

\* recognition.onend: `question` is the one startListening saw
TutorOnEnd(i) ==
  /\ tutor.sessions[i].phase \in {"listening", "stopping", "failed"}
  /\ LET question == tutor.sessions[i].closure
         ended == [tutor EXCEPT !.sessions[i].phase = "ended",
                                !.isListening = FALSE]
     IN  tutor' =
           IF ~trimIsEmpty(question)
           THEN [askQuestion(ended, question) EXCEPT
                   !.question = << >>,
                   !.sessions[i].submitted = [set |-> TRUE, text |-> question]]
           ELSE ended
  /\ UNCHANGED <<hook, script, player>>
  /\ UNCHANGED <<audioVars, streamVars, serverVars, pair>>

(***************************************************************************)
(* course-app/scripts/generate-audio.ts: one run of the script.            *)
(***************************************************************************)
\* generate-audio.ts:21-47, the ids of the lessons
Lessons == <<"lesson-1-1", "lesson-2-1", "lesson-3-1", "lesson-4-1", "lesson-5-1">>

\* INWORLD_API_KEY: unset, empty, set ("key")
ScriptKeys == {JUndefined, JStr(<< >>), JStr(<<107, 101, 121>>)}

\* pc: the await the run is at; lesson: the index of the loop; attempted:
\* the lessons generateAudio was called for; saved: the files written;
\* failed: the lessons whose catch block ran; exitCode: Null while running
NewScript(key) ==
  [key |-> key, pc |-> "main", lesson |-> 0, attempted |-> << >>, saved |-> << >>,
   failed |-> << >>, audioBuffer |-> << >>, mkdirOk |-> FALSE, done |-> FALSE,
   exitCode |-> Null]

ScriptIdle == script = [NewScript(JUndefined) EXCEPT !.pc = "idle"]

ScriptInit == script \in { NewScript(key) : key \in ScriptKeys }

\* the for loop goes to its next lesson, or past the last one
nextLesson(s) ==
  IF s.lesson < Len(Lessons)
  THEN [s EXCEPT !.pc = "generate", !.lesson = @ + 1, !.audioBuffer = << >>]
  ELSE [s EXCEPT !.pc = "finish", !.audioBuffer = << >>]

\* mutant: the error of a lesson leaves the loop and rejects main()
lessonFailed_Rethrows(s) ==
  [s EXCEPT !.failed = Append(@, Lessons[s.lesson]), !.pc = "exited", !.exitCode = 1]

\* generate-audio.ts:97-99: the catch block of one lesson
lessonFailed(s) == nextLesson([s EXCEPT !.failed = Append(@, Lessons[s.lesson])])

\* generate-audio.ts:75-81: the key is checked, then mkdir is awaited
ScriptMain ==
  /\ script.pc = "main"
  /\ script' = IF ~Truthy(script.key)
               THEN [script EXCEPT !.pc = "exited", !.exitCode = 1]
               ELSE [script EXCEPT !.pc = "mkdir"]
  /\ UNCHANGED <<hook, tutor, player>>
  /\ UNCHANGED <<audioVars, streamVars, serverVars, pair>>

\* generate-audio.ts:81: mkdir settles; its rejection is outside every try,
\* so main() rejects and node exits with status 1
ScriptMkdir ==
  /\ script.pc = "mkdir"
  /\ \/ script' = nextLesson([script EXCEPT !.mkdirOk = TRUE])
     \/ script' = [script EXCEPT !.pc = "exited", !.exitCode = 1]
  /\ UNCHANGED <<hook, tutor, player>>
  /\ UNCHANGED <<audioVars, streamVars, serverVars, pair>>

\* generate-audio.ts:49-72, 90: generateAudio for the lesson of this
\* iteration: fetch rejects, the vendor answers with an error status, or it
\* answers 200 with a JSON body
ScriptGenerate ==
  /\ script.pc = "generate"
  /\ LET called == [script EXCEPT !.attempted = Append(@, Lessons[script.lesson])]
     IN  \/ script' = lessonFailed(called)
         \/ \E status \in {200, 401}, json \in VoiceJsons :
              LET audio == decodeBase64(GetProp(json, KeyAudioContent))
              IN  script' =
                    IF ~ResponseOk(status) \/ audio.threw
                    THEN lessonFailed(called)
                    ELSE [called EXCEPT !.pc = "write", !.audioBuffer = audio.buf]
  /\ UNCHANGED <<hook, tutor, player>>
  /\ UNCHANGED <<audioVars, streamVars, serverVars, pair>>

\* generate-audio.ts:93-96: writeFile settles
ScriptWrite ==
  /\ script.pc = "write"
  /\ \/ script' = nextLesson([script EXCEPT !.saved = Append(@, Lessons[script.lesson])])
     \/ script' = lessonFailed(script)
  /\ UNCHANGED <<hook, tutor, player>>
  /\ UNCHANGED <<audioVars, streamVars, serverVars, pair>>

\* generate-audio.ts:102: the last line of main(); node then exits with 0
ScriptDone ==
  /\ script.pc = "finish"
  /\ script' = [script EXCEPT !.pc = "exited", !.done = TRUE, !.exitCode = 0]
  /\ UNCHANGED <<hook, tutor, player>>
  /\ UNCHANGED <<audioVars, streamVars, serverVars, pair>>

(***************************************************************************)
(* course-app/src/components/AudioPlayer.tsx: one mounted player.  Rates    *)
(* are in hundredths: 75 is 0.75.                                           *)
(***************************************************************************)
\* AudioPlayer.tsx:71
speeds == <<75, 100, 125, 150, 200>>

\* speeds.indexOf(rate), counted from 0; -1 when absent
indexOf(list, value) ==
  IF \E k \in 1..Len(list) : list[k] = value
  THEN (CHOOSE k \in 1..Len(list) : list[k] = value /\ \A j \in 1..(k - 1) : list[j] # value) - 1
  ELSE -1

\* mutant: the last speed is followed by itself
nextRate_NoWrap(rate) ==
  LET currentIndex == indexOf(speeds, rate)
      nextIndex == Min(currentIndex + 1, Len(speeds) - 1)
  IN  speeds[nextIndex + 1]

\* AudioPlayer.tsx:71-74
nextRate(rate) ==
  LET currentIndex == indexOf(speeds, rate)
      nextIndex == (currentIndex + 1) % Len(speeds)
  IN  speeds[nextIndex + 1]

\* fileExists: whether /audio/<lessonId>.mp3 is there; checked: whether the
\* HEAD request of the mount effect has settled; audio: the <audio> element;
\* changes: speed changes so far, counted modulo the number of speeds;
\* pressed: whether play was pressed
NewPlayer(fileExists) ==
  [fileExists |-> fileExists, checked |-> FALSE, hasAudio |-> FALSE,
   isLoading |-> FALSE, isPlaying |-> FALSE, error |-> NoMessage,
   playbackRate |-> 100,
   audio |-> [src |-> FALSE, paused |-> TRUE, ended |-> FALSE, currentTime |-> 0,
              playbackRate |-> 100],
   changes |-> 0, pressed |-> FALSE]

PlayerIdle == player = [NewPlayer(FALSE) EXCEPT !.checked = TRUE]

PlayerInit == player \in { NewPlayer(fileExists) : fileExists \in BOOLEAN }

\* AudioPlayer.tsx:22-32: the HEAD request settles; what the server says of
\* a file is its own business
PlayerCheckAudio ==
  /\ ~player.checked
  /\ \E ok \in BOOLEAN :
       player' = [player EXCEPT !.checked = TRUE, !.hasAudio = ok]
  /\ UNCHANGED <<hook, tutor, script>>
  /\ UNCHANGED <<audioVars, streamVars, serverVars, pair>>

\* AudioPlayer.tsx:34-47: handlePlay up to the await of play(); the button
\* shows while not playing and is disabled while loading
PlayerHandlePlay ==
  /\ ~player.isPlaying /\ ~player.isLoading
  /\ player' =
       IF ~player.hasAudio
       THEN [player EXCEPT
               !.error = Message("Audio not generated yet. Run: npx tsx scripts/generate-audio.ts"),
               !.pressed = TRUE]
       ELSE [player EXCEPT
               !.isLoading = TRUE, !.error = NoMessage, !.pressed = TRUE,
               !.audio = [src |-> TRUE, paused |-> FALSE, ended |-> FALSE,
                          currentTime |-> 0,
                          playbackRate |-> player.playbackRate]]
  /\ UNCHANGED <<hook, tutor, script>>
  /\ UNCHANGED <<audioVars, streamVars, serverVars, pair>>

\* AudioPlayer.tsx:47-53: play() settles; it is rejected when there is no
\* file to play, and may be when there is one
PlayerPlaySettles ==
  /\ player.isLoading
  /\ \/ /\ player.fileExists
        /\ player' = [player EXCEPT !.isPlaying = TRUE, !.isLoading = FALSE]
     \/ player' = [player EXCEPT
                     !.error = Message("The element has no supported sources."),
                     !.audio.paused = TRUE,
                     !.isLoading = FALSE]
  /\ UNCHANGED <<hook, tutor, script>>
  /\ UNCHANGED <<audioVars, streamVars, serverVars, pair>>

\* AudioPlayer.tsx:57-60; the button shows while playing.  The element
\* stays where it is: currentTime 1 stands for any time after the start
PlayerHandlePause ==
  /\ player.isPlaying
  /\ player' = [player EXCEPT !.audio.paused = TRUE, !.audio.currentTime = 1,
                              !.isPlaying = FALSE]
  /\ UNCHANGED <<hook, tutor, script>>
  /\ UNCHANGED <<audioVars, streamVars, serverVars, pair>>

\* AudioPlayer.tsx:62-68; the button is disabled while not playing
PlayerHandleStop ==
  /\ player.isPlaying
  /\ player' = [player EXCEPT !.audio.paused = TRUE, !.audio.ended = FALSE,
                              !.audio.currentTime = 0, !.isPlaying = FALSE]
  /\ UNCHANGED <<hook, tutor, script>>
  /\ UNCHANGED <<audioVars, streamVars, serverVars, pair>>

\* AudioPlayer.tsx:70-80
PlayerHandleSpeedChange ==
  /\ LET newRate == nextRate(player.playbackRate)
     IN  player' = [player EXCEPT
                      !.playbackRate = newRate,
                      !.audio.playbackRate = newRate,
                      !.changes = (@ + 1) % Len(speeds)]
  /\ UNCHANGED <<hook, tutor, script>>
  /\ UNCHANGED <<audioVars, streamVars, serverVars, pair>>

\* AudioPlayer.tsx:82-84: onEnded of the element
PlayerHandleEnded ==
  /\ player.audio.src /\ ~player.audio.paused /\ ~player.audio.ended
  /\ player.isPlaying
  /\ player' = [player EXCEPT !.audio.ended = TRUE, !.audio.currentTime = 1,
                              !.isPlaying = FALSE]
  /\ UNCHANGED <<hook, tutor, script>>
  /\ UNCHANGED <<audioVars, streamVars, serverVars, pair>>

(***************************************************************************)
(* The specifications.                                                     *)
(***************************************************************************)
AppIdle == HookIdle /\ TutorIdle /\ ScriptIdle /\ PlayerIdle

BackendIdle == StreamIdle /\ AudioIdle /\ ServerIdle /\ PairIdle

Init == StreamInit /\ AudioIdle /\ ServerIdle /\ PairIdle /\ AppIdle

Next == Start \/ Read \/ Finish

Spec == Init /\ [][Next]_vars

(***************************************************************************)
(* The pure functions of audio.ts applied to drawn inputs.                 *)
(***************************************************************************)
InitAudio == AudioInit /\ StreamIdle /\ ServerIdle /\ PairIdle /\ AppIdle

NextAudio == StripOnce \/ StripTwice \/ Assemble

SpecAudio == InitAudio /\ [][NextAudio]_vars

(***************************************************************************)
(* The server handling one HTTP request.                                   *)
(***************************************************************************)
InitServer == ServerInit /\ AudioIdle /\ PairIdle /\ AppIdle

NextServer ==
  \/ Validate
  \/ AskLLM
  \/ GenerateSpeech
  \/ CallStreamSpeech
  \/ StartRequest
  \/ Read
  \/ ReadAbort
  \/ Finish
  \/ RespondStream
  \/ RespondAsk
  \/ errorHandler

SpecServer == InitServer /\ [][NextServer]_vars

(***************************************************************************)
(* Two concurrent streamSpeech calls, their steps interleaved.             *)
(***************************************************************************)
InitPair == PairInit /\ StreamIdle /\ AudioIdle /\ ServerIdle /\ AppIdle

NextPair == \E i \in Calls : PairStart(i) \/ PairRead(i) \/ PairFinish(i)

SpecPair == InitPair /\ [][NextPair]_vars

\* one mounted hook
InitHook == HookInit /\ TutorIdle /\ ScriptIdle /\ PlayerIdle /\ BackendIdle

NextHook ==
  \/ HookStop
  \/ HookAsk
  \/ HookEnded
  \/ HookMediaError
  \/ \E i \in Asks :
       \/ HookFetchSettles(i)
       \/ HookJsonSettles(i)
       \/ HookBlobSettles(i)
       \/ HookPlaySettles(i)

SpecHook == InitHook /\ [][NextHook]_vars

\* one mounted AskTutor
InitTutor == TutorInit /\ HookIdle /\ ScriptIdle /\ PlayerIdle /\ BackendIdle

NextTutor ==
  \/ TutorType
  \/ TutorSubmit
  \/ TutorAskSettles
  \/ TutorStopAudio
  \/ TutorMicClick
  \/ \E i \in Sessions :
       \/ TutorOnStart(i)
       \/ TutorOnResult(i)
       \/ TutorOnError(i)
       \/ TutorOnEnd(i)

SpecTutor == InitTutor /\ [][NextTutor]_vars

\* one run of the script; every await settles in the end
InitScript == ScriptInit /\ HookIdle /\ TutorIdle /\ PlayerIdle /\ BackendIdle

NextScript == ScriptMain \/ ScriptMkdir \/ ScriptGenerate \/ ScriptWrite \/ ScriptDone

SpecScript == InitScript /\ [][NextScript]_vars /\ WF_vars(NextScript)

\* one mounted AudioPlayer
InitPlayer == PlayerInit /\ HookIdle /\ TutorIdle /\ ScriptIdle /\ BackendIdle

NextPlayer ==
  \/ PlayerCheckAudio
  \/ PlayerHandlePlay
  \/ PlayerPlaySettles
  \/ PlayerHandlePause
  \/ PlayerHandleStop
  \/ PlayerHandleSpeedChange
  \/ PlayerHandleEnded

SpecPlayer == InitPlayer /\ [][NextPlayer]_vars

(***************************************************************************)
(* Properties of the pure functions (SpecAudio).                           *)
(***************************************************************************)
\* the bytes of B at 0..3 are 'RIFF' and at 8..11 are 'WAVE'
HasExactTagPair(B) ==
  /\ Len(B) >= TagZoneLen
  /\ SubSeq(B, 1, 4) = TagRIFF
  /\ SubSeq(B, 9, 12) = TagWAVE

\* C1: stripWavHeader returns B without its first 44 bytes when B carries the
\* bytes 'RIFF' at 0..3 and 'WAVE' at 8..11 and is longer than 44 bytes, and
\* returns B unchanged in every other case.
C1_StripContract ==
  aPc \in {"stripped", "restripped"} =>
    aOnce = IF HasExactTagPair(aIn) /\ Len(aIn) > WavHeaderLen
            THEN SubSeq(aIn, WavHeaderLen + 1, Len(aIn))
            ELSE aIn

\* C2 as stated: stripping an already-stripped buffer is a no-op, for every
\* buffer.
C2_Idempotent == aPc = "restripped" => aTwice = aOnce

\* B is longer than 88 bytes and hasWavHeader accepts both B and B without
\* its first 44 bytes
HasNestedHeader(B) ==
  /\ Len(B) > 2 * WavHeaderLen
  /\ hasWavHeader(B)
  /\ hasWavHeader(subarray(B, WavHeaderLen))

\* C2 amended: the second strip is a no-op exactly when B carries no second
\* header behind the first; when it does, the second strip removes 44 more
\* bytes.
C2_IdempotentUnlessNested ==
  aPc = "restripped" =>
    /\ (aTwice = aOnce) <=> ~HasNestedHeader(aIn)
    /\ HasNestedHeader(aIn) => aTwice = subarray(aIn, 2 * WavHeaderLen)

\* a header was stripped once and the second strip changed nothing
C2_Witness ==
  /\ aPc = "restripped"
  /\ hasWavHeader(aIn)
  /\ Len(aOnce) = Len(aIn) - WavHeaderLen
  /\ Len(aOnce) > 0
  /\ aTwice = aOnce

RECURSIVE SumLen(_)
SumLen(list) == IF list = << >> THEN 0 ELSE Len(Head(list)) + SumLen(Tail(list))

\* C3: the assembled header declares fileSize = 36 + D, dataLength = D,
\* sampleRate = R and byteRate = 2 * R, D being the total length of the
\* chunks and of the bytes that follow the header; assembleWav returns for
\* every rate a 32-bit field holds.
C3_HeaderArithmetic ==
  aPc = "assembled" =>
    /\ aWav.threw <=> aRate < 0
    /\ ~aWav.threw =>
         LET W == aWav.buf
             D == SumLen(aChunks)
         IN  /\ ReadUInt32LE(W, 4) = RiffSizeBias + D
             /\ ReadUInt32LE(W, 40) = D
             /\ ReadUInt32LE(W, 24) = aRate
             /\ ReadUInt32LE(W, 28) = 2 * aRate
             /\ Len(W) - WavHeaderLen = D

C3_Witness ==
  /\ aPc = "assembled"
  /\ ~aWav.threw
  /\ Len(aChunks) = MaxChunks
  /\ SumLen(aChunks) > 1
  /\ aRate = DefaultSampleRate
  /\ ReadUInt32LE(aWav.buf, 28) = 2 * DefaultSampleRate

\* C4: the output is 44 + the sum of the chunk lengths long, and from offset
\* 44 on it holds the chunks' bytes in list order.
C4_PayloadIsConcatenation ==
  aPc = "assembled" /\ ~aWav.threw =>
    /\ Len(aWav.buf) = WavHeaderLen + SumLen(aChunks)
    /\ \A k \in 1..Len(aChunks) : \A j \in 1..Len(aChunks[k]) :
         aWav.buf[WavHeaderLen + SumLen(SubSeq(aChunks, 1, k - 1)) + j]
           = aChunks[k][j]

\* two different non-empty chunks were assembled
C4_Witness ==
  /\ aPc = "assembled"
  /\ ~aWav.threw
  /\ Len(aChunks) >= 2
  /\ aChunks[1] # aChunks[2]
  /\ aChunks[1] # << >>
  /\ aChunks[2] # << >>
  /\ Len(aWav.buf) > WavHeaderLen

(***************************************************************************)
(* Properties of streamSpeech (Spec).                                      *)
(***************************************************************************)
\* C5: a stream that ends with no chunk returns, without error, a 44-byte
\* WAV whose data length is 0 (and whose RIFF size is that of no data).
C5_EmptyStreamHeaderOnly ==
  pc = "done" /\ req.chunks = << >> =>
    /\ ~returned.threw
    /\ Len(returned.audioBuffer) = WavHeaderLen
    /\ ReadUInt32LE(returned.audioBuffer, 40) = 0
    /\ ReadUInt32LE(returned.audioBuffer, 4) = RiffSizeBias

C5_Witness ==
  /\ pc = "done"
  /\ req.chunks = << >>
  /\ stream = << >>
  /\ Len(returned.audioBuffer) = WavHeaderLen

\* what the loop holds after one single read of the first n bytes
SingleRead(n) == processRead(NewRequestState, SubSeq(stream, 1, n), now)

\* C6: however the bytes delivered so far were split into reads, the chunk
\* sequence (and the retained text, the decoder and the warnings) is that of
\* one single read of the same bytes; at end-of-stream, of the whole stream.
C6_SplitIndependent ==
  pc \in {"reading", "done"} =>
    LET one == SingleRead(pos)
    IN  /\ req.chunks = one.chunks
        /\ req.buffer = one.buffer
        /\ req.decoder = one.decoder
        /\ req.warnings = one.warnings
        /\ (pc = "done" => pos = Len(stream))

\* a read ended inside a two-byte character, after a chunk was decoded
C6_Witness ==
  /\ pc = "reading"
  /\ req.decoder.needed = 1
  /\ req.chunks # << >>
  /\ pos < Len(stream)

ValidKinds == {"pcm", "wav", "control"}

\* the complete lines of the stream: every line but an unterminated last one
CompleteCount == IF terminated THEN Len(vendorLines) ELSE Len(vendorLines) - 1

RemoveAt(list, i) == SubSeq(list, 1, i - 1) \o SubSeq(list, i + 1, Len(list))

\* the one complete line that is not JSON among otherwise valid records,
\* 0 when the stream is not of that shape
CorruptLine ==
  LET bad == { i \in 1..Len(vendorLines) : vendorLines[i] = "garbage" }
  IN  IF /\ Cardinality(bad) = 1
         /\ \A i \in 1..Len(vendorLines) : i \in bad \/ vendorLines[i] \in ValidKinds
         /\ \A i \in bad : i <= CompleteCount
         /\ Len(vendorLines) >= 2
      THEN CHOOSE i \in bad : TRUE
      ELSE 0

\* the text of a line as the loop sees it
LineText(kind) == decode(NewDecoder, LineBytes(kind)).out

\* C7: with one complete line that JSON.parse rejects among valid records,
\* streamSpeech returns, warns about that line only, and returns the audio
\* buffer of the same stream without that line.
C7_CorruptLineSkipped ==
  pc = "done" /\ CorruptLine # 0 =>
    LET without == StreamBytes(RemoveAt(vendorLines, CorruptLine), terminated)
        other == processRead(NewRequestState, without, now)
    IN  /\ ~returned.threw
        /\ returned.audioBuffer
             = streamResult(other, reqSampleRate, startTime, now).audioBuffer
        /\ req.warnings = <<substring(LineText("garbage"), WarnPrefixLen)>>
        /\ other.warnings = << >>

\* the corrupt line came first and the audio record after it was still decoded
C7_Witness ==
  /\ pc = "done"
  /\ CorruptLine = 1
  /\ vendorLines[2] \in AudioKinds
  /\ terminated
  /\ Len(req.chunks) = 1
  /\ Len(req.warnings) = 1

IsPrefix(a, b) == Len(a) <= Len(b) /\ SubSeq(b, 1, Len(a)) = a

\* the chunk an audio line must contribute: its PCM bytes
ExpectedChunk(kind) ==
  CASE kind = "pcm" -> PayloadPcm
    [] kind = "wav" -> <<9, 8>>
    [] kind = "wav100" -> ScenarioPcm100
    [] kind = "pcm50" -> ScenarioPcm50

RECURSIVE ExpectedChunks(_)
ExpectedChunks(kinds) ==
  IF kinds = << >> THEN << >>
  ELSE (IF Head(kinds) \in AudioKinds THEN <<ExpectedChunk(Head(kinds))>> ELSE << >>)
         \o ExpectedChunks(Tail(kinds))

\* C8: every step leaves the chunks already present in place, and the final
\* list holds the complete audio records in arrival order, equal ones
\* included.
C8_AppendOnlyInOrder ==
  /\ [][IsPrefix(req.chunks, req'.chunks)]_vars
  /\ [](pc = "done" =>
          req.chunks = ExpectedChunks(SubSeq(vendorLines, 1, CompleteCount)))

\* two equal chunks, both kept
C8_Witness ==
  /\ pc = "done"
  /\ Len(req.chunks) = 2
  /\ req.chunks[1] = req.chunks[2]

\* C9: timeToFirstChunk is 0 whenever the chunk list is empty at
\* end-of-stream, and never negative.
C9_ZeroWithoutChunks ==
  pc = "done" =>
    /\ req.chunks = << >> => returned.timeToFirstChunk = 0
    /\ returned.timeToFirstChunk >= 0

\* C10: a completed stream with at least one chunk has
\* totalTime >= timeToFirstChunk, the first-chunk timestamp lying between the
\* start and the end timestamps.
C10_TotalCoversFirstChunk ==
  pc = "done" /\ req.chunks # << >> =>
    /\ returned.totalTime >= returned.timeToFirstChunk
    /\ req.firstChunkTime # Null
    /\ startTime <= req.firstChunkTime
    /\ req.firstChunkTime <= startTime + returned.totalTime

C10_Witness ==
  /\ pc = "done"
  /\ req.chunks # << >>
  /\ returned.timeToFirstChunk > 0
  /\ returned.totalTime > returned.timeToFirstChunk

\* C11: for the two-record scenario stream (a 44-byte RIFF/WAVE header and
\* 100 PCM bytes, then 50 PCM bytes, both lines newline-terminated),
\* streamSpeech returns a 194-byte WAV whose data length is 150 and whose
\* payload is the 100 bytes followed by the 50, with timeToFirstChunk > 0.
C11_EndToEndScenario ==
  pc = "done" /\ vendorLines = Scenario /\ terminated =>
    /\ ~returned.threw
    /\ Len(returned.audioBuffer) = 194
    /\ ReadUInt32LE(returned.audioBuffer, 40) = 150
    /\ ReadUInt32LE(returned.audioBuffer, 4) = 186
    /\ subarray(returned.audioBuffer, WavHeaderLen) = ScenarioPcm100 \o ScenarioPcm50
    /\ returned.timeToFirstChunk > 0

\* the scenario stream was read to its end, its first record cut by a read
C11_Witness ==
  /\ pc = "done"
  /\ vendorLines = Scenario
  /\ terminated
  /\ Len(req.chunks) = 2
  /\ Len(req.chunks[1]) = 100
  /\ Len(req.chunks[2]) = 50
  /\ returned.timeToFirstChunk > 0

\* the clock values a run may observe at its start, at its first chunk and
\* at its end
ClockTriples ==
  { <<t0, tf, t1>> \in (1..MaxClock) \X (1..MaxClock) \X (1..MaxClock) :
      t0 < tf /\ tf <= t1 }

StreamingEndpoints == {"/api/tts/stream", "/api/ask"}

\* the vendor answers with a non-2xx status or without a body
TransportFails == ~ResponseOk(upstream.status) \/ ~upstream.hasBody

\* C12: when the vendor answers a streaming call with a non-2xx status or a
\* null body, streamSpeech throws that error before its reader loop: no byte
\* is read, no chunk decoded, nothing assembled or returned, and no response
\* carries audio.
C12_TransportFailureFatal ==
  /\ TransportFails
  /\ Truthy(config.inworldApiKey)
  /\ httpReq.endpoint \in StreamingEndpoints
  =>
  /\ pc \in {"idle", "start", "threw"}
  /\ pos = 0
  /\ req.chunks = << >>
  /\ returned = NoResult
  /\ \A i \in 1..Len(responses) : responses[i].audio = << >>
  /\ (pc = "threw" =>
        handler.thrown = IF ~ResponseOk(upstream.status)
                         THEN ErrStatus(upstream.status, upstream.errorBody)
                         ELSE ErrNullBody)

\* a 2xx answer without a body made postStream throw after its fetch
C12_Witness ==
  /\ pc = "threw"
  /\ upstream.status = 200
  /\ ~upstream.hasBody
  /\ handler.thrown = ErrNullBody
  /\ Len(fetched) = 1
  /\ stream # << >>

\* C13: while INWORLD_API_KEY is missing (unset or empty) no fetch is made
\* to the vendor, and every call of post or postStream throws the error
\* that names INWORLD_API_KEY.
C13_NoFetchWithoutKey ==
  ~Truthy(config.inworldApiKey) =>
    /\ fetched = << >>
    /\ pc \in {"idle", "start", "threw"}
    /\ (pc = "threw" => handler.thrown = ErrNoApiKey)
    /\ (httpReq.endpoint = "/api/tts" /\ handler.pc \in {"catch", "sent"}
          /\ Truthy(httpReq.body.text) => handler.thrown = ErrNoApiKey)
    /\ \A i \in 1..Len(responses) : responses[i].status # 200

\* postStream was called with an empty key and threw the configuration error
C13_Witness ==
  /\ config.inworldApiKey = JStr(<< >>)
  /\ pc = "threw"
  /\ handler.thrown = ErrNoApiKey
  /\ fetched = << >>
  /\ handler.pc = "sent"

\* C14: after reader.read() failed with the abort condition, no WAV is
\* sent, nothing is written with console.error and no error response is
\* sent.
C14_AbortSuppressed ==
  handler.thrown = ErrAbort =>
    /\ returned = NoResult
    /\ \A i \in 1..Len(responses) : responses[i].audio = << >>
    /\ consoleError = << >>
    /\ responses = << >>

\* the first complete response of the streaming endpoint
SentOk(endpoint) ==
  /\ httpReq.endpoint = endpoint
  /\ handler.pc = "sent"
  /\ Len(responses) = 1
  /\ responses[1].status = 200

\* C17: a successful /api/tts/stream request sends the vendor, and writes in
\* the WAV header, the body's sampleRate when there is one and the default
\* otherwise; likewise the voice and the model.
C17_CallerValuesUsed ==
  SentOk("/api/tts/stream") =>
    LET b == httpReq.body
        rate == IF b.sampleRate.t = "num" THEN b.sampleRate.n ELSE DefaultSampleRate
    IN  /\ fetched[1].body.sample_rate_hertz = rate
        /\ ReadUInt32LE(responses[1].audio, 24) = rate
        /\ fetched[1].body.voiceId = (IF b.voice.t = "str" THEN b.voice ELSE DefaultVoiceId)
        /\ fetched[1].body.modelId = (IF b.model.t = "str" THEN b.model ELSE DefaultModelId)

\* the one response sent is an error response with this message as JSON
IsErrorReply(message) ==
  /\ Len(responses) = 1
  /\ responses[1].status >= 400
  /\ responses[1].status <= 599
  /\ responses[1].contentType = "application/json"
  /\ responses[1].error = message
  /\ responses[1].audio = << >>

TransportOrConfigErrors ==
  { ErrNoApiKey, ErrNullBody, ErrAbort, ErrLlm,
    ErrStatus(upstream.status, upstream.errorBody) }

\* C18: an error thrown by the vendor client, the LLM client or the
\* configuration check inside a handler ends the request with exactly one
\* response, of status 4xx or 5xx, whose JSON body carries the error's
\* message; no audio is sent and the vendor is fetched at most once.
C18_ErrorsBecomeJson ==
  /\ Len(responses) <= 1
  /\ Len(fetched) <= 1
  /\ llmCalls <= 1
  /\ (handler.thrown \in TransportOrConfigErrors /\ handler.pc = "sent" =>
        IsErrorReply(handler.thrown.message))
  /\ (handler.thrown # NoError => handler.pc \in {"catch", "sent"})
  /\ (/\ httpReq.endpoint = "/api/ask"
      /\ Truthy(httpReq.body.question)
      /\ ~Truthy(config.openaiApiKey)
      /\ handler.pc = "sent"
      => /\ IsErrorReply("OPENAI_API_KEY not configured")
         /\ llmCalls = 0
         /\ fetched = << >>)

\* the vendor refused the TTS call of an ask request after the LLM answered
C18_Witness ==
  /\ httpReq.endpoint = "/api/ask"
  /\ handler.pc = "sent"
  /\ handler.thrown = ErrStatus(401, "unauthorized")
  /\ llmCalls = 1
  /\ Len(fetched) = 1
  /\ Len(responses) = 1
  /\ responses[1].status = 500

IsDigits(str) == str # << >> /\ \A i \in 1..Len(str) : str[i] \in 48..57

RECURSIVE ParseDecimal(_)
ParseDecimal(str) ==
  IF str = << >> THEN 0
  ELSE 10 * ParseDecimal(SubSeq(str, 1, Len(str) - 1)) + (str[Len(str)] - 48)

\* the header is a whole number of milliseconds, nearest to the duration
RendersMs(header, ticks) ==
  /\ IsDigits(header)
  /\ LET shown == ParseDecimal(header) * TicksPerMs
     IN  2 * (IF shown > ticks THEN shown - ticks ELSE ticks - shown) <= TicksPerMs

\* C19: a successful /api/tts/stream response has Content-Type audio/wav,
\* the buffer streamSpeech returned as its body, and X-TTFB-Ms and
\* X-Total-Ms showing this request's timeToFirstChunk and totalTime as
\* decimal strings of whole milliseconds.
C19_StreamResponse ==
  SentOk("/api/tts/stream") =>
    /\ pc = "done"
    /\ responses[1].contentType = "audio/wav"
    /\ responses[1].audio = returned.audioBuffer
    /\ Len(responses[1].audio) >= WavHeaderLen
    /\ RendersMs(responses[1].xTtfbMs, returned.timeToFirstChunk)
    /\ RendersMs(responses[1].xTotalMs, returned.totalTime)

\* half a millisecond to the first chunk, one and a half in total
C19_Witness ==
  /\ SentOk("/api/tts/stream")
  /\ returned.timeToFirstChunk = 1
  /\ returned.totalTime = 3
  /\ responses[1].xTtfbMs = <<49>>
  /\ responses[1].xTotalMs = <<50>>
  /\ Len(req.chunks) = 1

\* C20: a successful /api/ask response carries X-TTFB-Ms and X-Total-Ms of
\* the TTS stream (timeToFirstChunk and totalTime), X-LLM-Ms of the LLM call
\* and X-AI-Response, the URL-encoded LLM text, with the WAV as its body.
C20_AskHeaders ==
  SentOk("/api/ask") =>
    /\ responses[1].audio = returned.audioBuffer
    /\ responses[1].xTtfbMs = toFixed0(returned.timeToFirstChunk)
    /\ responses[1].xTotalMs = toFixed0(returned.totalTime)
    /\ responses[1].xLlmMs = toFixed0(handler.llmTime)
    /\ responses[1].xAiResponse = encodeURIComponent(handler.aiResponse.s).out

(***************************************************************************)
(* Properties of concurrent requests (SpecPair).                           *)
(***************************************************************************)
\* what call i holds when it runs alone and gets its bytes in one read
Alone(i) ==
  processRead(NewRequestState, SubSeq(pair[i].body, 1, pair[i].pos), now)

CallIsolated(i) ==
  pair[i].pc \in {"reading", "done"} =>
    LET mine == pair[i].locals
        alone == Alone(i)
    IN  /\ mine.chunks = alone.chunks
        /\ mine.buffer = alone.buffer
        /\ mine.decoder = alone.decoder
        /\ mine.warnings = alone.warnings
        /\ (mine.firstChunkTime # Null =>
              pair[i].startTime < mine.firstChunkTime /\ mine.firstChunkTime <= now)
        /\ (pair[i].pc = "done" =>
              /\ pair[i].returned.audioBuffer
                   = streamResult(alone, DefaultSampleRate, 1, 1).audioBuffer
              /\ pair[i].returned.timeToFirstChunk
                   = (IF mine.firstChunkTime = Null THEN 0
                      ELSE mine.firstChunkTime - pair[i].startTime)
              /\ pair[i].returned.totalTime >= pair[i].returned.timeToFirstChunk)

\* C15: with the reads of two concurrent streamSpeech calls interleaved in
\* any order, a step changes the decode buffer, chunk list and timers of
\* one call only, and each call holds, and at its end returns, what it
\* would when run alone on its stream.
C15_RequestIsolation ==
  /\ [][\E i \in Calls : \A j \in Calls \ {i} : pair'[j] = pair[j]]_vars
  /\ [](\A i \in Calls : CallIsolated(i))

\* call 1 is inside a two-byte character with a line in its buffer while
\* call 2, on another stream, has returned its one chunk
C15_Witness ==
  /\ pair[1].pc = "reading"
  /\ pair[1].lines = <<"garbage", "pcm">>
  /\ pair[1].locals.decoder.needed = 1
  /\ pair[1].locals.buffer # << >>
  /\ pair[2].pc = "done"
  /\ pair[2].lines = <<"pcm">>
  /\ Len(pair[2].locals.chunks) = 1
  /\ Len(pair[2].returned.audioBuffer) > WavHeaderLen

(***************************************************************************)
(* The documented defaults (README, "Defaults").                           *)
(***************************************************************************)
\* "Ashley"
ReadmeVoice == JStr(<<65, 115, 104, 108, 101, 121>>)

\* "inworld-tts-1.5-max"
ReadmeModel ==
  JStr(<<105, 110, 119, 111, 114, 108, 100, 45, 116, 116, 115, 45, 49, 46, 53,
         45, 109, 97, 120>>)

ReadmeSampleRate == 48000

\* C21: a vendor request made for a body without voice and model carries
\* the voice, the model and (on the streaming endpoint of the vendor) the
\* sample rate that the README documents as defaults.
C21_ReadmeDefaults ==
  (/\ fetched # << >>
   /\ httpReq.body.voice = JUndefined
   /\ httpReq.body.model = JUndefined) =>
    /\ fetched[1].body.voiceId = ReadmeVoice
    /\ fetched[1].body.modelId = ReadmeModel
    /\ (fetched[1].url = "/voice:stream" =>
          fetched[1].body.sample_rate_hertz = ReadmeSampleRate)

(***************************************************************************)
(* More properties of one request (Spec).                                  *)
(***************************************************************************)
\* the lines that carry no audio: whitespace only, a record without
\* result.audioContent, and the JSON value null
NonAudioKinds == {"blank", "control", "null"}

CompleteLines == SubSeq(vendorLines, 1, CompleteCount)

\* C22: when every complete line is an audio record, an empty or
\* whitespace-only line, or a line that parses as JSON without a
\* result.audioContent field, streamSpeech returns without any warning, its
\* chunks are those of the audio records in order, and the first-chunk
\* timestamp is set only if there is an audio record.
C22_NonAudioSilent ==
  (/\ pc = "done"
   /\ \A i \in 1..CompleteCount : vendorLines[i] \in NonAudioKinds \cup AudioKinds) =>
    /\ ~returned.threw
    /\ req.warnings = << >>
    /\ req.chunks = ExpectedChunks(CompleteLines)
    /\ ((\A i \in 1..CompleteCount : vendorLines[i] \in NonAudioKinds)
          => req.firstChunkTime = Null)

\* the length left of a decoded record by the header-strip rule
StrippedLen(B) ==
  IF HasExactTagPair(B) /\ Len(B) > WavHeaderLen THEN Len(B) - WavHeaderLen ELSE Len(B)

RECURSIVE SumStripped(_)
SumStripped(kinds) ==
  IF kinds = << >> THEN 0
  ELSE (IF Head(kinds) \in AudioKinds THEN StrippedLen(PayloadOf(Head(kinds))) ELSE 0)
         + SumStripped(Tail(kinds))

\* the positions of the complete audio records among the lines
AudioPositions == { i \in 1..CompleteCount : vendorLines[i] \in AudioKinds }

\* C23: the data part of the WAV that streamSpeech returns is as long as the
\* stripped lengths of all complete audio records together, and every
\* chunk, the first or a later one, is its record without the 44 header
\* bytes when the record starts with the RIFF/WAVE tags and is longer than 44.
C23_StripEveryChunk ==
  (pc = "done" /\ ~returned.threw) =>
    /\ Len(returned.audioBuffer) = WavHeaderLen + SumStripped(CompleteLines)
    /\ Len(req.chunks) = Cardinality(AudioPositions)
    /\ \A i \in AudioPositions :
         LET n == Cardinality({ j \in AudioPositions : j <= i })
             record == PayloadOf(vendorLines[i])
         IN  req.chunks[n] =
               (IF HasExactTagPair(record) /\ Len(record) > WavHeaderLen
                THEN SubSeq(record, WavHeaderLen + 1, Len(record))
                ELSE record)

\* a record with a header arrived after a record without one and lost its
\* 44 header bytes
C23_Witness ==
  /\ pc = "done"
  /\ terminated
  /\ vendorLines = <<"pcm", "wav">>
  /\ Len(req.chunks) = 2
  /\ Len(req.chunks[2]) = Len(PayloadWav) - WavHeaderLen
  /\ Len(returned.audioBuffer)
       = WavHeaderLen + Len(PayloadPcm) + Len(PayloadWav) - WavHeaderLen

\* the lines that make the loop warn
WarnKinds == {"garbage", "null", "numeric"}

\* the bytes after the 44 header bytes of a WAV
DataPart(wav) == SubSeq(wav, WavHeaderLen + 1, Len(wav))

\* C24: at end-of-stream the chunks and the warnings are those of the
\* newline-terminated lines; the text after the last newline is still in
\* the buffer, unparsed, and the WAV returned holds nothing of it.
C24_TailNeverParsed ==
  pc = "done" =>
    /\ req.chunks = ExpectedChunks(CompleteLines)
    /\ Len(req.warnings)
         = Cardinality({ i \in 1..CompleteCount : vendorLines[i] \in WarnKinds })
    /\ req.buffer = (IF terminated \/ vendorLines = << >> THEN << >>
                     ELSE LineText(vendorLines[Len(vendorLines)]))
    /\ (~returned.threw =>
          DataPart(returned.audioBuffer) = BufferConcat(ExpectedChunks(CompleteLines)))

\* the stream ended with an audio record that no newline follows: it is in
\* the buffer and not in the WAV
C24_Witness ==
  /\ pc = "done"
  /\ ~terminated
  /\ vendorLines = <<"pcm", "wav">>
  /\ req.buffer = LineText("wav")
  /\ Len(req.chunks) = 1
  /\ DataPart(returned.audioBuffer) = PayloadPcm

\* the lines whose result.audioContent is there (a non-empty value), whether
\* or not it can be decoded
ContentKinds == AudioKinds \cup {"numeric"}

\* how many lines the reads delivered so far have completed
LinesSeen == Cardinality({ i \in 1..pos : stream[i] = LineFeed })

\* C25: within one request the first-chunk timestamp never changes once it
\* is set, and it is set exactly when a complete line with
\* result.audioContent has been processed, also when that content cannot be
\* decoded and no chunk exists; it lies after the start of the request.
C25_FirstChunkTimeOnce ==
  /\ [][req.firstChunkTime # Null => req'.firstChunkTime = req.firstChunkTime]_vars
  /\ [](pc \in {"reading", "done"} =>
          /\ (req.firstChunkTime # Null)
               = (\E i \in 1..LinesSeen : vendorLines[i] \in ContentKinds)
          /\ (req.firstChunkTime # Null =>
                startTime < req.firstChunkTime /\ req.firstChunkTime <= now))

\* the timestamp was set by a record whose content could not be decoded,
\* and the audio record after it left it as it was
C25_Witness ==
  /\ pc = "done"
  /\ terminated
  /\ vendorLines = <<"numeric", "pcm">>
  /\ Len(req.chunks) = 1
  /\ req.firstChunkTime # Null
  /\ req.firstChunkTime < now

(***************************************************************************)
(* More properties of the server (SpecServer).                             *)
(***************************************************************************)
\* a field of the body that is missing or the empty string
MissingOrEmpty(field) == field = JUndefined \/ field = JStr(<< >>)

\* the one response sent is this status with this message as JSON, and
\* nothing was asked of the vendor or of the LLM
RejectedWith(status, message) ==
  /\ handler.pc = "sent"
  /\ Len(responses) = 1
  /\ responses[1].status = status
  /\ responses[1].contentType = "application/json"
  /\ responses[1].error = message
  /\ responses[1].audio = << >>
  /\ fetched = << >>
  /\ llmCalls = 0
  /\ pc = "idle"

\* C26: once the handler has looked at the request, a missing or empty text
\* (/api/tts, /api/tts/stream) or question (/api/ask) has been answered with
\* 400 and a JSON error, and a question without a configured
\* OPENAI_API_KEY with 500, in both cases without any vendor or LLM call.
C26_ValidationFirst ==
  handler.pc \notin {"idle", "received"} =>
    /\ (httpReq.endpoint \in {"/api/tts", "/api/tts/stream"}
          /\ MissingOrEmpty(httpReq.body.text)
          => RejectedWith(400, "text is required"))
    /\ (httpReq.endpoint = "/api/ask" /\ MissingOrEmpty(httpReq.body.question)
          => RejectedWith(400, "question is required"))
    /\ (httpReq.endpoint = "/api/ask" /\ ~MissingOrEmpty(httpReq.body.question)
          /\ MissingOrEmpty(config.openaiApiKey)
          => RejectedWith(500, "OPENAI_API_KEY not configured"))

\* an empty question was turned away although both keys are set
C26_Witness ==
  /\ httpReq.endpoint = "/api/ask"
  /\ httpReq.body.question = JStr(<< >>)
  /\ Truthy(config.openaiApiKey)
  /\ Truthy(config.inworldApiKey)
  /\ RejectedWith(400, "question is required")

(***************************************************************************)
(* Properties of the hooks (SpecHook).                                     *)
(***************************************************************************)
\* C27: once the controller of a request has been aborted, by stop() or by
\* a newer ask()/explain(), no step of that request changes the error
\* state, sets isPlaying, or changes the latency and response fields.
C27_CancelledNeverWrites ==
  [][\A i \in Asks :
       (i \in hook.signalled /\ hook'.actor = i /\ hook' # hook) =>
         /\ hook'.state.error = hook.state.error
         /\ (hook'.state.isPlaying => hook.state.isPlaying)
         /\ hook'.state.llmLatency = hook.state.llmLatency
         /\ hook'.state.ttsLatency = hook.state.ttsLatency
         /\ hook'.state.totalLatency = hook.state.totalLatency
         /\ hook'.state.aiResponse = hook.state.aiResponse]_vars

(***************************************************************************)
(* Properties of the AskTutor component (SpecTutor).                       *)
(***************************************************************************)
\* C28: a recognition session that has ended after onresult put a
\* transcript that is not blank in the field has passed that transcript to
\* askQuestion.
C28_VoiceAutoSubmit ==
  \A i \in Sessions :
    (/\ tutor.sessions[i].phase = "ended"
     /\ tutor.sessions[i].transcript.set
     /\ ~trimIsEmpty(tutor.sessions[i].transcript.text)) =>
      /\ tutor.sessions[i].submitted = tutor.sessions[i].transcript
      /\ tutor.asked.set

(***************************************************************************)
(* Properties of the generate-audio script (SpecScript).                   *)
(***************************************************************************)
\* the lessons are attempted in list order, none twice
AttemptsInOrder == IsPrefix(script.attempted, Lessons)

\* without a key the run ends with status 1 and no vendor call
NoKeyNoCall ==
  (~Truthy(script.key) /\ script.pc \notin {"idle", "main"}) =>
    /\ script.pc = "exited"
    /\ script.exitCode = 1
    /\ script.attempted = << >>

\* C29 as stated: without INWORLD_API_KEY the script exits with status 1
\* before any vendor call; with it, every run attempts every lesson once,
\* in list order, whatever fails for a lesson, and reaches its end.
C29_AlwaysReachesEnd ==
  /\ [](NoKeyNoCall /\ AttemptsInOrder)
  /\ []((Truthy(script.key) /\ script.pc = "exited") =>
          script.attempted = Lessons /\ script.done)
  /\ ((Truthy(script.key) /\ script.pc = "main") ~> script.done)

\* C29, amended: without INWORLD_API_KEY, and when the audio directory
\* cannot be created, the script exits with status 1 before any vendor call;
\* once the directory exists every run attempts every lesson once, in list
\* order, each lesson ending saved or failed, and reaches its end with
\* status 0.  Every run ends.
C29_RunsEveryLessonAfterMkdir ==
  /\ [](NoKeyNoCall /\ AttemptsInOrder)
  /\ []((script.pc = "exited" /\ ~script.mkdirOk) =>
          /\ script.exitCode = 1
          /\ script.attempted = << >>
          /\ ~script.done)
  /\ []((script.pc = "exited" /\ script.mkdirOk) =>
          /\ script.attempted = Lessons
          /\ Len(script.saved) + Len(script.failed) = Len(Lessons)
          /\ script.done
          /\ script.exitCode = 0)
  /\ (script.mkdirOk ~> script.done)
  /\ (script.pc = "main" ~> script.pc = "exited")

\* the first lesson failed, the four after it were saved, and the run
\* reached its end
C29_Witness ==
  /\ script.done
  /\ script.failed = <<Lessons[1]>>
  /\ script.saved = SubSeq(Lessons, 2, Len(Lessons))

(***************************************************************************)
(* Properties of the AudioPlayer component (SpecPlayer).                   *)
(***************************************************************************)
\* the rate that follows a rate in 0.75, 1, 1.25, 1.5, 2, cyclically
FollowingRate(rate) ==
  CASE rate = 75 -> 100
    [] rate = 100 -> 125
    [] rate = 125 -> 150
    [] rate = 150 -> 200
    [] rate = 200 -> 75

\* C30: playbackRate is always one of 0.75, 1, 1.25, 1.5, 2; a speed change
\* moves it to the following value, 2 being followed by 0.75, so that it
\* depends only on the number of changes modulo five; and while the audio
\* file does not exist isPlaying is never true and a settled press of play
\* leaves an error message.
C30_PlayerRates ==
  /\ [](player.playbackRate \in {75, 100, 125, 150, 200})
  /\ [][player'.changes # player.changes =>
          /\ player'.playbackRate = FollowingRate(player.playbackRate)
          /\ player'.audio.playbackRate = player'.playbackRate]_vars
  /\ [][player'.changes = player.changes =>
          player'.playbackRate = player.playbackRate]_vars
  /\ [](player.playbackRate
          = <<100, 125, 150, 200, 75>>[player.changes + 1])
  /\ [](~player.fileExists => ~player.isPlaying)
  /\ []((~player.fileExists /\ player.pressed /\ ~player.isLoading) =>
          player.error.set)

\* four speed changes have wrapped the rate round to 0.75, and play was
\* pressed for a missing file that the HEAD request had reported present
C30_Witness ==
  /\ player.changes = 4
  /\ player.playbackRate = 75
  /\ ~player.fileExists
  /\ player.hasAudio
  /\ player.pressed
  /\ ~player.isLoading
  /\ ~player.isPlaying
  /\ player.error = Message("The element has no supported sources.")

====
